---- MODULE Spec2Model ----
(***************************************************************************)
(* Model of the diorama ray tracer: the sparse voxel grid and its DDA      *)
(* traversal (src/src/voxel.rs), the box and plane primitives              *)
(* (src/src/cube.rs, src/src/plane.rs), the recursive ray caster and the   *)
(* parallel frame dispatcher (src/src/main.rs).                            *)
(*                                                                         *)
(* f32 values are modelled as exact extended rationals <<n, d>>:           *)
(*   d > 0   the finite value n/d, in lowest terms                         *)
(*   <<1,0>> +infinity, <<-1,0>> -infinity, <<0,0>> NaN                    *)
(* so the IEEE special values that 1.0/0.0, inf-inf and 0*inf produce are  *)
(* kept, while rounding to 24 bits is not modelled (signed zero is not     *)
(* modelled either).  A Vector3 is a triple <<x, y, z>> of such values.    *)
(***************************************************************************)
EXTENDS Integers, Sequences, FiniteSets, TLC

\* ------------------------------------------------------------------------
\* f32 arithmetic
\* ------------------------------------------------------------------------
Abs(x) == IF x < 0 THEN -x ELSE x

Sgn(x) == IF x < 0 THEN -1 ELSE IF x > 0 THEN 1 ELSE 0

RECURSIVE Gcd(_, _)
Gcd(a, b) == IF b = 0 THEN a ELSE Gcd(b, a % b)

\* the f32 with numerator n over denominator d >= 0, in lowest terms
Norm(n, d) ==
    IF d = 0 THEN <<Sgn(n), 0>>
    ELSE LET g == Gcd(Abs(n), d) IN <<n \div g, d \div g>>

F(n, d) == Norm(n, d)

FromInt(i) == <<i, 1>>

Zero == <<0, 1>>

One == <<1, 1>>

INFINITY == <<1, 0>>

NAN == <<0, 0>>

IsNaN(a) == a = NAN

IsFinite(a) == a[2] > 0

FNeg(a) == <<-a[1], a[2]>>

FAbs(a) == <<Abs(a[1]), a[2]>>

FAdd(a, b) ==
    IF IsNaN(a) \/ IsNaN(b) THEN NAN
    ELSE IF a[2] = 0 THEN (IF b[2] = 0 /\ b[1] # a[1] THEN NAN ELSE a)
    ELSE IF b[2] = 0 THEN b
    ELSE LET g == Gcd(a[2], b[2])
             l == (a[2] \div g) * b[2]
         IN  Norm(a[1] * (l \div a[2]) + b[1] * (l \div b[2]), l)

FSub(a, b) == FAdd(a, FNeg(b))

FMul(a, b) ==
    IF a[2] = 0 \/ b[2] = 0 THEN <<Sgn(a[1]) * Sgn(b[1]), 0>>
    ELSE LET g1 == Gcd(Abs(a[1]), b[2])
             g2 == Gcd(Abs(b[1]), a[2])
         IN  IF a[1] = 0 \/ b[1] = 0 THEN Zero
             ELSE Norm((a[1] \div g1) * (b[1] \div g2),
                       (a[2] \div g2) * (b[2] \div g1))

\* 1/b: 1/0 is infinity, 1/inf is 0, 1/NaN is NaN
FRecip(b) ==
    IF IsNaN(b) THEN NAN
    ELSE IF b[2] = 0 THEN Zero
    ELSE IF b[1] = 0 THEN INFINITY
    ELSE IF b[1] < 0 THEN <<-b[2], -b[1]>> ELSE <<b[2], b[1]>>

FDiv(a, b) ==
    IF a[2] = 0 /\ b[2] = 0 THEN NAN
    ELSE IF a[2] > 0 /\ a[1] = 0 /\ b[2] > 0 /\ b[1] = 0 THEN NAN
    ELSE FMul(a, FRecip(b))

\* a < b; false when either side is NaN
FLt(a, b) ==
    IF IsNaN(a) \/ IsNaN(b) THEN FALSE
    ELSE IF a[2] = 0 /\ b[2] = 0 THEN a[1] < b[1]
    ELSE IF a[2] = 0 THEN a[1] < 0
    ELSE IF b[2] = 0 THEN b[1] > 0
    ELSE LET g == Gcd(a[2], b[2])
         IN  a[1] * (b[2] \div g) < b[1] * (a[2] \div g)

FGt(a, b) == FLt(b, a)

FLe(a, b) == ~IsNaN(a) /\ ~IsNaN(b) /\ (a = b \/ FLt(a, b))

FGe(a, b) == FLe(b, a)

\* f32::min and f32::max return the other operand when one is NaN
FMin(a, b) == IF IsNaN(a) THEN b ELSE IF IsNaN(b) THEN a ELSE IF FLt(b, a) THEN b ELSE a

FMax(a, b) == IF IsNaN(a) THEN b ELSE IF IsNaN(b) THEN a ELSE IF FLt(a, b) THEN b ELSE a

I32_MAX == 2147483647

I32_MIN == -2147483647 - 1

\* v.floor() as i32: the cast saturates and sends NaN to 0
FloorI32(a) ==
    IF IsNaN(a) THEN 0
    ELSE IF a[2] = 0 THEN (IF a[1] > 0 THEN I32_MAX ELSE I32_MIN)
    ELSE a[1] \div a[2]

\* v.ceil() as i32
CeilI32(a) ==
    IF IsNaN(a) THEN 0
    ELSE IF a[2] = 0 THEN (IF a[1] > 0 THEN I32_MAX ELSE I32_MIN)
    ELSE -((-a[1]) \div a[2])

\* v.floor() as an f32
FFloor(a) == IF IsFinite(a) THEN FromInt(a[1] \div a[2]) ELSE a

\* Vector3 operations
Vec(x, y, z) == <<x, y, z>>

VAdd(a, b) == <<FAdd(a[1], b[1]), FAdd(a[2], b[2]), FAdd(a[3], b[3])>>

VSub(a, b) == <<FSub(a[1], b[1]), FSub(a[2], b[2]), FSub(a[3], b[3])>>

VScale(a, s) == <<FMul(a[1], s), FMul(a[2], s), FMul(a[3], s)>>

VNeg(a) == <<FNeg(a[1]), FNeg(a[2]), FNeg(a[3])>>

VDot(a, b) == FAdd(FAdd(FMul(a[1], b[1]), FMul(a[2], b[2])), FMul(a[3], b[3]))

\* the threshold 1e-6 below which a direction component counts as zero
EPSILON == <<1, 1000000>>


\* ------------------------------------------------------------------------
\* Bounds of the model and the inputs the operations are tried on
\* ------------------------------------------------------------------------
\* the largest number of occupied cells a grid is grown to
MaxCells == 2

\* cell keys offered to insert
Keys == {<<0, 0, 0>>, <<0, 1, 0>>, <<1, 0, 0>>, <<0, 2, 1>>, <<-1, -1, 0>>}

Materials == {"M", "N"}

H(n) == F(n, 2)

\* ray origins: outside the padded box, inside an occupied cell, on a cell
\* boundary, one a millionth inside the padded face x = 1.1, and one half a
\* millionth below the cell boundary x = 1
Origins ==
    { <<H(1), H(10), H(1)>>, <<H(1), H(10), H(0)>>, <<H(1), H(1), H(1)>>,
      <<H(2), H(1), H(1)>>, <<H(-6), H(1), H(1)>>, <<H(7), H(9), H(1)>>,
      <<H(1), H(-5), H(2)>>, <<H(-1), H(-1), H(1)>>,
      <<F(1099999, 1000000), H(10), H(1)>>,
      <<F(1999999, 2000000), H(5), H(1)>> }

\* ray directions: the six axis directions, unit vectors with two or three
\* non-zero components (two of them with two equal components, so that two
\* pending crossing parameters can be equal), and one with a component below
\* the 1e-6 threshold
Directions ==
    { <<F(0, 1), F(-1, 1), F(0, 1)>>, <<F(0, 1), F(1, 1), F(0, 1)>>,
      <<F(1, 1), F(0, 1), F(0, 1)>>, <<F(-1, 1), F(0, 1), F(0, 1)>>,
      <<F(0, 1), F(0, 1), F(1, 1)>>, <<F(0, 1), F(0, 1), F(-1, 1)>>,
      <<F(-3, 5), F(-4, 5), F(0, 1)>>, <<F(4, 5), F(0, 1), F(-3, 5)>>,
      <<F(-2, 3), F(-2, 3), F(-1, 3)>>, <<F(3, 5), F(4, 5), F(0, 1)>>,
      <<F(1, 2000000), F(-1, 1), F(0, 1)>>, <<F(1, 3), F(2, 3), F(2, 3)>> }

\* distance budgets offered to intersect_ray
Distances == {F(3, 1), F(10, 1)}

MAX_DDA_STEPS == 100

\* step budgets offered to intersect_ray
StepBudgets == {0, 2, MAX_DDA_STEPS}

\* ------------------------------------------------------------------------
\* State
\* ------------------------------------------------------------------------
VARIABLES
    grid,       \* the VoxelGrid
    pc,         \* control point of the operation in progress
    call,       \* arguments of the intersect_ray call in progress
    dda,        \* locals of the intersect_ray call in progress
    lookups,    \* cells.get calls made by the call in progress
    exit,       \* the return statement the call left through
    out,        \* the Intersect the call returned
    prim,       \* the last Cube or Plane ray_intersect call and its result
    cast,       \* the cast_ray_recursive call chain in progress
    frame,      \* the render_parallel_optimized call in progress
    tex,        \* TEXTURE_CACHE and the Textures handed out so far
    app,        \* the main loop: its position, its flags and the frames shown
    got,        \* the last value get_center or get_bounding_sphere_radius returned
    ray,        \* the last Ray SimpleCamera::get_ray returned, with its arguments
    shaded,     \* the last emission term shade_pixel_pbr computed, with its arguments
    sample,     \* the last texel a Texture sampling call read, with its arguments
    loaders     \* the threads inside Texture::load_cached_texture and their locals

vars == <<grid, pc, call, dda, lookups, exit, out, prim, cast, frame, tex, app, got, ray, shaded, sample, loaders>>

\* the variables of the grid and its traversal
gridVars == <<grid, pc, call, dda, lookups, exit, out>>

NoPrim == [shape |-> "none"]

NoCast == [pc |-> "idle"]

NoFrame == [pc |-> "idle"]

NoApp == [pc |-> "idle"]

NoRay == [pc |-> "idle"]

NoShaded == [pc |-> "idle"]

NoSample == [pc |-> "idle"]

NoData == [id |-> 0, source |-> "none", width |-> 0, height |-> 0,
           fallback_color |-> Vec(Zero, Zero, Zero)]

\* the threads that call load_cached_texture
LoaderThreads == {1, 2}

\* a thread outside load_cached_texture
IdleLoader ==
    [pc |-> "idle", filename |-> "", fallback_color |-> Vec(Zero, Zero, Zero),
     data |-> NoData]

\* no thread is inside load_cached_texture and the lock of TEXTURE_CACHE is
\* free; decoded, stored and returned record the TextureData objects built,
\* inserted into the cache and handed to callers, each with its file name
NoLoaders ==
    [threads |-> [t \in LoaderThreads |-> IdleLoader], lock |-> 0, started |-> 0,
     decoded |-> {}, stored |-> {}, returned |-> {}]

NoGot == [n |-> 0, recomputed |-> 0, op |-> "none",
          center |-> <<Zero, Zero, Zero>>, radius |-> Zero]

\* texture.rs 6-9: TEXTURE_CACHE is an empty map when the process starts.  next
\* numbers the TextureData allocations (the identity of an Arc), log records
\* the calls made on the cache so far
NoTex == [cache |-> {}, next |-> 1, log |-> <<>>]

\* ------------------------------------------------------------------------
\* Intersect (ray_intersect.rs is not part of the sources)
\* ------------------------------------------------------------------------
Intersect_empty ==
    [is_intersecting |-> FALSE, point |-> <<Zero, Zero, Zero>>,
     normal |-> <<Zero, Zero, Zero>>, distance |-> Zero,
     material |-> "none", u |-> Zero, v |-> Zero]

Intersect_new_with_uv(point, normal, distance, material, u, v) ==
    [is_intersecting |-> TRUE, point |-> point, normal |-> normal,
     distance |-> distance, material |-> material, u |-> u, v |-> v]

Intersect_new(point, normal, distance, material) ==
    Intersect_new_with_uv(point, normal, distance, material, Zero, Zero)

\* ------------------------------------------------------------------------
\* VoxelGrid
\* ------------------------------------------------------------------------
VoxelGrid_new ==
    [cells |-> <<>>,
     bounds_min |-> <<Zero, Zero, Zero>>,
     bounds_max |-> <<Zero, Zero, Zero>>,
     has_bounds |-> FALSE,
     center |-> <<Zero, Zero, Zero>>,
     radius |-> Zero,
     bounds_cached |-> FALSE]

\* mutant: the grid is never taken for empty
cells_is_empty_never(g) == FALSE

cells_is_empty(g) == DOMAIN g.cells = {}

cells_insert(cells, key, m) ==
    [k \in DOMAIN cells \cup {key} |-> IF k = key THEN m ELSE cells[k]]

\* mutant: the lower corner stays where the first insert put it
VMinWith_first_only(v, p) == v

VMinWith(v, p) ==
    <<IF FLt(p[1], v[1]) THEN p[1] ELSE v[1],
      IF FLt(p[2], v[2]) THEN p[2] ELSE v[2],
      IF FLt(p[3], v[3]) THEN p[3] ELSE v[3]>>

VMaxWith(v, p) ==
    <<IF FGt(p[1], v[1]) THEN p[1] ELSE v[1],
      IF FGt(p[2], v[2]) THEN p[2] ELSE v[2],
      IF FGt(p[3], v[3]) THEN p[3] ELSE v[3]>>

\* mutant: the insert leaves the cached centre and radius marked as valid
insert_keep_cache(g, x, y, z, m) ==
    LET p == <<FromInt(x), FromInt(y), FromInt(z)>>
    IN  [g EXCEPT
           !.cells = cells_insert(g.cells, <<x, y, z>>, m),
           !.bounds_min = IF ~g.has_bounds THEN p ELSE VMinWith(g.bounds_min, p),
           !.bounds_max = IF ~g.has_bounds THEN p ELSE VMaxWith(g.bounds_max, p),
           !.has_bounds = TRUE]

\* voxel.rs 31-47; x as f32 is exact for the keys used here (|x| < 2^24)
insert(g, x, y, z, m) ==
    LET p == <<FromInt(x), FromInt(y), FromInt(z)>>
    IN  [g EXCEPT
           !.cells = cells_insert(g.cells, <<x, y, z>>, m),
           !.bounds_cached = FALSE,
           !.bounds_min = IF ~g.has_bounds THEN p ELSE VMinWith(g.bounds_min, p),
           !.bounds_max = IF ~g.has_bounds THEN p ELSE VMaxWith(g.bounds_max, p),
           !.has_bounds = TRUE]

PAD_MIN == F(1, 10)

PAD_MAX == F(11, 10)

calculate_bounds(g) ==
    IF ~g.has_bounds \/ cells_is_empty(g)
    THEN <<(<<Zero, Zero, Zero>>), (<<Zero, Zero, Zero>>)>>
    ELSE <<(<<FSub(g.bounds_min[1], PAD_MIN), FSub(g.bounds_min[2], PAD_MIN),
              FSub(g.bounds_min[3], PAD_MIN)>>),
           (<<FAdd(g.bounds_max[1], PAD_MAX), FAdd(g.bounds_max[2], PAD_MAX),
              FAdd(g.bounds_max[3], PAD_MAX)>>)>>

\* the largest integer whose square is at most m
RECURSIVE ISqrt(_)
ISqrt(m) ==
    IF m < 2 THEN m
    ELSE LET s == 2 * ISqrt(m \div 4)
         IN  IF (s + 1) * (s + 1) <= m THEN s + 1 ELSE s

\* f32::sqrt gives the nearest f32; here the result is rounded down to a
\* multiple of 1/SQRT_SCALE
SQRT_SCALE == 100

FSqrt(a) ==
    IF IsNaN(a) \/ a[1] < 0 THEN NAN
    ELSE IF ~IsFinite(a) THEN a
    ELSE F(ISqrt((a[1] * SQRT_SCALE * SQRT_SCALE) \div a[2]), SQRT_SCALE)

\* voxel.rs 49-63
update_cached_values(g) ==
    IF g.bounds_cached THEN g
    ELSE LET b == calculate_bounds(g)
             center == <<FMul(H(1), FAdd(b[1][1], b[2][1])),
                         FMul(H(1), FAdd(b[1][2], b[2][2])),
                         FMul(H(1), FAdd(b[1][3], b[2][3]))>>
             rx == FAbs(FSub(b[2][1], center[1]))
             ry == FAbs(FSub(b[2][2], center[2]))
             rz == FAbs(FSub(b[2][3], center[3]))
         IN  [g EXCEPT !.center = center,
                       !.radius = FSqrt(FAdd(FAdd(FMul(rx, rx), FMul(ry, ry)), FMul(rz, rz))),
                       !.bounds_cached = TRUE]

\* voxel.rs 84-87: the grid after the call and the value returned
get_center(g) ==
    [grid |-> update_cached_values(g), value |-> update_cached_values(g).center]

\* voxel.rs 89-92
get_bounding_sphere_radius(g) ==
    [grid |-> update_cached_values(g), value |-> update_cached_values(g).radius]

\* ------------------------------------------------------------------------
\* VoxelGrid::intersect_ray
\* ------------------------------------------------------------------------
\* mutant: every axis is put through the division, whatever its component
SlabAxis_always_divides(s, ro_i, rd_i, min_i, max_i) ==
    IF ~s.ok THEN s
    ELSE LET inv_d == FDiv(One, rd_i)
             a == FMul(FSub(min_i, ro_i), inv_d)
             b == FMul(FSub(max_i, ro_i), inv_d)
             t0 == IF FLt(inv_d, Zero) THEN b ELSE a
             t1 == IF FLt(inv_d, Zero) THEN a ELSE b
             tmin == IF FGt(t0, s.tmin) THEN t0 ELSE s.tmin
             tmax_box == IF FLt(t1, s.tmax_box) THEN t1 ELSE s.tmax_box
         IN  [ok |-> ~FLt(tmax_box, tmin), tmin |-> tmin, tmax_box |-> tmax_box]

\* one pass of the slab loop over axis i; s.ok = FALSE once the function
\* has returned Intersect::empty()
SlabAxis(s, ro_i, rd_i, min_i, max_i) ==
    IF ~s.ok THEN s
    ELSE IF FLt(FAbs(rd_i), EPSILON)
    THEN IF FLt(ro_i, min_i) \/ FGt(ro_i, max_i)
         THEN [s EXCEPT !.ok = FALSE]
         ELSE s
    ELSE LET inv_d == FDiv(One, rd_i)
             a == FMul(FSub(min_i, ro_i), inv_d)
             b == FMul(FSub(max_i, ro_i), inv_d)
             t0 == IF FLt(inv_d, Zero) THEN b ELSE a
             t1 == IF FLt(inv_d, Zero) THEN a ELSE b
             tmin == IF FGt(t0, s.tmin) THEN t0 ELSE s.tmin
             tmax_box == IF FLt(t1, s.tmax_box) THEN t1 ELSE s.tmax_box
         IN  [ok |-> ~FLt(tmax_box, tmin), tmin |-> tmin, tmax_box |-> tmax_box]

\* the slab loop of lines 104-130: the three passes, each on the result of
\* the pass before
SlabTest(bmin, bmax, ro, rd, t_max) ==
    CHOOSE s3 \in
        {SlabAxis(s2, ro[3], rd[3], bmin[3], bmax[3]) :
            s2 \in {SlabAxis(s1, ro[2], rd[2], bmin[2], bmax[2]) :
                      s1 \in {SlabAxis([ok |-> TRUE, tmin |-> Zero, tmax_box |-> t_max],
                                       ro[1], rd[1], bmin[1], bmax[1])}}} : TRUE

step_of(rd_i) == IF FGt(rd_i, Zero) THEN 1 ELSE -1

t_delta_of(rd_i) ==
    IF FLt(FAbs(rd_i), EPSILON) THEN INFINITY ELSE FDiv(One, FAbs(rd_i))

next_boundary_of(rd_i, c_i) ==
    IF FGt(rd_i, Zero) THEN FAdd(FromInt(c_i), One) ELSE FromInt(c_i)

t_max_of(rd_i, c_i, start_i) ==
    IF FLt(FAbs(rd_i), EPSILON) THEN INFINITY
    ELSE FDiv(FAbs(FSub(next_boundary_of(rd_i, c_i), start_i)), FAbs(rd_i))

\* the locals of intersect_ray when the stepping loop is entered
DdaSetup(bmin, bmax, ro, rd, tmin) ==
    LET t_entry == IF FLt(tmin, Zero) THEN Zero ELSE tmin
        start == VAdd(ro, VScale(rd, t_entry))
        cx == FloorI32(start[1])
        cy == FloorI32(start[2])
        cz == FloorI32(start[3])
    IN  [t_entry |-> t_entry,
         cx |-> cx, cy |-> cy, cz |-> cz,
         step_x |-> step_of(rd[1]), step_y |-> step_of(rd[2]),
         step_z |-> step_of(rd[3]),
         t_delta_x |-> t_delta_of(rd[1]), t_delta_y |-> t_delta_of(rd[2]),
         t_delta_z |-> t_delta_of(rd[3]),
         t_max_x |-> t_max_of(rd[1], cx, start[1]),
         t_max_y |-> t_max_of(rd[2], cy, start[2]),
         t_max_z |-> t_max_of(rd[3], cz, start[3]),
         hit_face |-> 3,
         limit_min |-> <<FloorI32(bmin[1]), FloorI32(bmin[2]), FloorI32(bmin[3])>>,
         limit_max |-> <<CeilI32(bmax[1]), CeilI32(bmax[2]), CeilI32(bmax[3])>>,
         i |-> 0]

\* the locals before the loop is entered, and after the call has returned
NoDda == [i |-> 0]

\* mutant: the upper limits are not tested
OutsideLimits_lower_only(d) ==
    d.cx < d.limit_min[1] \/ d.cy < d.limit_min[2] \/ d.cz < d.limit_min[3]

OutsideLimits(d) ==
    \/ d.cx < d.limit_min[1] \/ d.cy < d.limit_min[2] \/ d.cz < d.limit_min[3]
    \/ d.cx > d.limit_max[1] \/ d.cy > d.limit_max[2] \/ d.cz > d.limit_max[3]

Occupied(g, d) == <<d.cx, d.cy, d.cz>> \in DOMAIN g.cells

\* mutant: the entry parameter is not added to the crossing parameter
t_hit_of_no_entry(d) ==
    IF d.hit_face = 0 THEN FSub(d.t_max_x, d.t_delta_x)
    ELSE IF d.hit_face = 1 THEN FSub(d.t_max_y, d.t_delta_y)
    ELSE IF d.hit_face = 2 THEN FSub(d.t_max_z, d.t_delta_z)
    ELSE d.t_entry

t_hit_of(d) ==
    FAdd(IF d.hit_face = 0 THEN FSub(d.t_max_x, d.t_delta_x)
         ELSE IF d.hit_face = 1 THEN FSub(d.t_max_y, d.t_delta_y)
         ELSE IF d.hit_face = 2 THEN FSub(d.t_max_z, d.t_delta_z)
         ELSE d.t_entry,
         d.t_entry)

\* mutant: the normal points along the step instead of against it
hit_normal_along_step(d, rd) ==
    IF d.hit_face = 0
    THEN <<IF FGt(rd[1], Zero) THEN One ELSE FromInt(-1), Zero, Zero>>
    ELSE IF d.hit_face = 1
    THEN <<Zero, IF FGt(rd[2], Zero) THEN One ELSE FromInt(-1), Zero>>
    ELSE IF d.hit_face = 2
    THEN <<Zero, Zero, IF FGt(rd[3], Zero) THEN One ELSE FromInt(-1)>>
    ELSE <<Zero, One, Zero>>

hit_normal(d, rd) ==
    IF d.hit_face = 0
    THEN <<IF FGt(rd[1], Zero) THEN FromInt(-1) ELSE One, Zero, Zero>>
    ELSE IF d.hit_face = 1
    THEN <<Zero, IF FGt(rd[2], Zero) THEN FromInt(-1) ELSE One, Zero>>
    ELSE IF d.hit_face = 2
    THEN <<Zero, Zero, IF FGt(rd[3], Zero) THEN FromInt(-1) ELSE One>>
    ELSE <<Zero, One, Zero>>

wrap01_precise(v) ==
    LET result == FSub(v, FFloor(v))
    IN  IF FLt(result, Zero) THEN FAdd(result, One) ELSE result

face_uv_optimized(hit, cx, cy, cz, normal) ==
    LET fx == FSub(hit[1], FromInt(cx))
        fy == FSub(hit[2], FromInt(cy))
        fz == FSub(hit[3], FromInt(cz))
    IN  IF FGt(FAbs(normal[1]), F(1, 2))
        THEN <<wrap01_precise(fz), FSub(One, wrap01_precise(fy))>>
        ELSE IF FGt(FAbs(normal[2]), F(1, 2))
        THEN <<wrap01_precise(fx), FSub(One, wrap01_precise(fz))>>
        ELSE <<wrap01_precise(fx), FSub(One, wrap01_precise(fy))>>

\* mutant: the hit point is taken where the ray enters the padded box
HitRecord_point_at_entry(g, d, ro, rd) ==
    LET t_hit == t_hit_of(d)
        hit_point == VAdd(ro, VScale(rd, d.t_entry))
        normal == hit_normal(d, rd)
        uv == face_uv_optimized(hit_point, d.cx, d.cy, d.cz, normal)
    IN  Intersect_new_with_uv(hit_point, normal, t_hit,
                              g.cells[<<d.cx, d.cy, d.cz>>], uv[1], uv[2])

\* the Intersect returned for the occupied cell the loop stands on
HitRecord(g, d, ro, rd) ==
    LET t_hit == t_hit_of(d)
        hit_point == VAdd(ro, VScale(rd, t_hit))
        normal == hit_normal(d, rd)
        uv == face_uv_optimized(hit_point, d.cx, d.cy, d.cz, normal)
    IN  Intersect_new_with_uv(hit_point, normal, t_hit,
                              g.cells[<<d.cx, d.cy, d.cz>>], uv[1], uv[2])

\* mutant: the advance does not use up the step budget
Advance_no_count(d) ==
    IF FLe(d.t_max_x, d.t_max_y) /\ FLe(d.t_max_x, d.t_max_z)
    THEN [d EXCEPT !.cx = d.cx + d.step_x,
                   !.t_max_x = FAdd(d.t_max_x, d.t_delta_x), !.hit_face = 0]
    ELSE IF FLe(d.t_max_y, d.t_max_z)
    THEN [d EXCEPT !.cy = d.cy + d.step_y,
                   !.t_max_y = FAdd(d.t_max_y, d.t_delta_y), !.hit_face = 1]
    ELSE [d EXCEPT !.cz = d.cz + d.step_z,
                   !.t_max_z = FAdd(d.t_max_z, d.t_delta_z), !.hit_face = 2]

\* mutant: equal crossing parameters are settled for the later axis
Advance_ties_to_later(d) ==
    IF FLt(d.t_max_x, d.t_max_y) /\ FLt(d.t_max_x, d.t_max_z)
    THEN [d EXCEPT !.cx = d.cx + d.step_x,
                   !.t_max_x = FAdd(d.t_max_x, d.t_delta_x),
                   !.hit_face = 0, !.i = d.i + 1]
    ELSE IF FLt(d.t_max_y, d.t_max_z)
    THEN [d EXCEPT !.cy = d.cy + d.step_y,
                   !.t_max_y = FAdd(d.t_max_y, d.t_delta_y),
                   !.hit_face = 1, !.i = d.i + 1]
    ELSE [d EXCEPT !.cz = d.cz + d.step_z,
                   !.t_max_z = FAdd(d.t_max_z, d.t_delta_z),
                   !.hit_face = 2, !.i = d.i + 1]

\* the locals after the advance to the next cell that ends a loop pass
Advance(d) ==
    IF FLe(d.t_max_x, d.t_max_y) /\ FLe(d.t_max_x, d.t_max_z)
    THEN [d EXCEPT !.cx = d.cx + d.step_x,
                   !.t_max_x = FAdd(d.t_max_x, d.t_delta_x),
                   !.hit_face = 0, !.i = d.i + 1]
    ELSE IF FLe(d.t_max_y, d.t_max_z)
    THEN [d EXCEPT !.cy = d.cy + d.step_y,
                   !.t_max_y = FAdd(d.t_max_y, d.t_delta_y),
                   !.hit_face = 1, !.i = d.i + 1]
    ELSE [d EXCEPT !.cz = d.cz + d.step_z,
                   !.t_max_z = FAdd(d.t_max_z, d.t_delta_z),
                   !.hit_face = 2, !.i = d.i + 1]

\* mutant: the slab test and the set-up take the direction with the wrong sign
intersect_ray_enter_negated(g, ro, rd, t_max) ==
    IF cells_is_empty(g) THEN [ok |-> FALSE, exit |-> "empty_grid", dda |-> NoDda]
    ELSE CHOOSE e \in
            {IF ~s.ok THEN [ok |-> FALSE, exit |-> "miss_box", dda |-> NoDda]
             ELSE [ok |-> TRUE, exit |-> "none",
                   dda |-> DdaSetup(b[1], b[2], ro, VNeg(rd), s.tmin)] :
                b \in {calculate_bounds(g)},
                s \in {SlabTest(calculate_bounds(g)[1], calculate_bounds(g)[2],
                                ro, VNeg(rd), t_max)}} : TRUE

\* lines 94-174: the empty-grid test, the slab test and the loop set-up;
\* ok = FALSE when the function has returned Intersect::empty()
intersect_ray_enter(g, ro, rd, t_max) ==
    IF cells_is_empty(g) THEN [ok |-> FALSE, exit |-> "empty_grid", dda |-> NoDda]
    ELSE CHOOSE e \in
            {IF ~s.ok THEN [ok |-> FALSE, exit |-> "miss_box", dda |-> NoDda]
             ELSE [ok |-> TRUE, exit |-> "none",
                   dda |-> DdaSetup(b[1], b[2], ro, rd, s.tmin)] :
                b \in {calculate_bounds(g)},
                s \in {SlabTest(calculate_bounds(g)[1], calculate_bounds(g)[2],
                                ro, rd, t_max)}} : TRUE

\* ------------------------------------------------------------------------
\* The grid and its traversal as a state machine
\* ------------------------------------------------------------------------
NoCall == [max_steps |-> 0]

Init ==
    /\ grid = VoxelGrid_new
    /\ pc = "idle"
    /\ call = NoCall
    /\ dda = NoDda
    /\ lookups = 0
    /\ exit = "none"
    /\ out = Intersect_empty
    /\ prim = NoPrim
    /\ cast = NoCast
    /\ frame = NoFrame
    /\ tex = NoTex
    /\ app = NoApp
    /\ got = NoGot
    /\ ray = NoRay
    /\ shaded = NoShaded
    /\ sample = NoSample
    /\ loaders = NoLoaders

Insert(x, y, z, m) ==
    /\ pc = "idle"
    /\ <<x, y, z>> \in DOMAIN grid.cells \/ Cardinality(DOMAIN grid.cells) < MaxCells
    /\ grid' = insert(grid, x, y, z, m)
    /\ UNCHANGED <<pc, call, dda, lookups, exit, out, prim, cast, frame, tex, app, got, ray, shaded, sample, loaders>>

\* the call and everything up to the first pass of the loop
intersect_ray_begin(ro, rd, t_max, max_steps) ==
    /\ pc = "idle"
    /\ call' = [ro |-> ro, rd |-> rd, t_max |-> t_max, max_steps |-> max_steps]
    /\ lookups' = 0
    /\ out' = Intersect_empty
    /\ LET e == intersect_ray_enter(grid, ro, rd, t_max)
       IN  /\ pc' = IF e.ok THEN "loop" ELSE "done"
           /\ exit' = e.exit
           /\ dda' = e.dda
    /\ UNCHANGED grid

IntersectRay(ro, rd, t_max, max_steps) ==
    /\ intersect_ray_begin(ro, rd, t_max, max_steps)
    /\ UNCHANGED <<prim, cast, frame, tex, app, got, ray, shaded, sample, loaders>>

\* for _ in 0..max_steps has run out: line 230
LoopExhausted ==
    /\ pc = "loop"
    /\ dda.i >= call.max_steps
    /\ pc' = "done"
    /\ exit' = "budget"
    /\ out' = Intersect_empty
    /\ UNCHANGED <<grid, call, dda, lookups, prim, cast, frame, tex, app, got, ray, shaded, sample, loaders>>

\* lines 177-180
LoopOutside ==
    /\ pc = "loop"
    /\ dda.i < call.max_steps
    /\ OutsideLimits(dda)
    /\ pc' = "done"
    /\ exit' = "outside"
    /\ out' = Intersect_empty
    /\ UNCHANGED <<grid, call, dda, lookups, prim, cast, frame, tex, app, got, ray, shaded, sample, loaders>>

\* lines 182-195: the cell is occupied but lies beyond t_max
LoopTooFar ==
    /\ pc = "loop"
    /\ dda.i < call.max_steps
    /\ ~OutsideLimits(dda)
    /\ Occupied(grid, dda)
    /\ FGt(t_hit_of(dda), call.t_max)
    /\ lookups' = lookups + 1
    /\ pc' = "done"
    /\ exit' = "too_far"
    /\ out' = Intersect_empty
    /\ UNCHANGED <<grid, call, dda, prim, cast, frame, tex, app, got, ray, shaded, sample, loaders>>

\* lines 182-213: the cell is occupied and the hit is returned
LoopHit ==
    /\ pc = "loop"
    /\ dda.i < call.max_steps
    /\ ~OutsideLimits(dda)
    /\ Occupied(grid, dda)
    /\ ~FGt(t_hit_of(dda), call.t_max)
    /\ lookups' = lookups + 1
    /\ pc' = "done"
    /\ exit' = "hit"
    /\ out' = HitRecord(grid, dda, call.ro, call.rd)
    /\ UNCHANGED <<grid, call, dda, prim, cast, frame, tex, app, got, ray, shaded, sample, loaders>>

\* lines 182, 215-227: the cell is free, step to the next one
LoopAdvance ==
    /\ pc = "loop"
    /\ dda.i < call.max_steps
    /\ ~OutsideLimits(dda)
    /\ ~Occupied(grid, dda)
    /\ lookups' = lookups + 1
    /\ dda' = Advance(dda)
    /\ UNCHANGED <<grid, pc, call, exit, out, prim, cast, frame, tex, app, got, ray, shaded, sample, loaders>>

\* the caller takes the result; the locals are gone
intersect_ray_end ==
    /\ pc = "done"
    /\ pc' = "idle"
    /\ call' = NoCall
    /\ dda' = NoDda
    /\ lookups' = 0
    /\ exit' = "none"
    /\ out' = Intersect_empty
    /\ UNCHANGED grid

Return ==
    /\ intersect_ray_end
    /\ UNCHANGED <<prim, cast, frame, tex, app, got, ray, shaded, sample, loaders>>

Next ==
    \/ \E k \in Keys, m \in Materials : Insert(k[1], k[2], k[3], m)
    \/ \E ro \in Origins, rd \in Directions, t \in Distances, n \in StepBudgets :
          IntersectRay(ro, rd, t, n)
    \/ LoopExhausted
    \/ LoopOutside
    \/ LoopTooFar
    \/ LoopHit
    \/ LoopAdvance
    \/ Return

Spec == Init /\ [][Next]_vars

\* ------------------------------------------------------------------------
\* Properties of VoxelGrid::intersect_ray
\* ------------------------------------------------------------------------
\* the grid whose only occupied cell is key (0,0,0), with material M
OnlyOriginCell == DOMAIN grid.cells = {<<0, 0, 0>>} /\ grid.cells[<<0, 0, 0>>] = "M"

DownRay ==
    call = [ro |-> <<H(1), H(10), H(1)>>, rd |-> <<Zero, FromInt(-1), Zero>>,
            t_max |-> FromInt(10), max_steps |-> 100]

UpRay ==
    call = [ro |-> <<H(1), H(10), H(1)>>, rd |-> <<Zero, One, Zero>>,
            t_max |-> FromInt(10), max_steps |-> 100]

\* C1: on the grid whose only cell is (0,0,0) with material M, the ray from
\* (0.5, 5, 0.5) along (0, -1, 0) with tMax 10 and 100 steps returns a hit
\* with t = 4, point (0.5, 1, 0.5), normal (0, 1, 0), u = v = 0.5, material M.
C1_WorkedExampleHit ==
    (pc = "done" /\ OnlyOriginCell /\ DownRay) =>
        out = [is_intersecting |-> TRUE,
               point |-> <<H(1), One, H(1)>>,
               normal |-> <<Zero, One, Zero>>,
               distance |-> FromInt(4),
               material |-> "M",
               u |-> H(1), v |-> H(1)]

C1_Witness == pc = "done" /\ OnlyOriginCell /\ DownRay /\ exit = "hit"

\* C2: on the same grid the ray from (0.5, 5, 0.5) along (0, 1, 0) returns
\* no hit.
C2_WorkedExampleMiss ==
    (pc = "done" /\ OnlyOriginCell /\ UpRay) => ~out.is_intersecting

C2_Witness == pc = "done" /\ OnlyOriginCell /\ UpRay /\ exit = "miss_box"

\* the point of the ray at parameter t
PointAt(ro, rd, t) == VAdd(ro, VScale(rd, t))

InBox(p, bmin, bmax) ==
    \A k \in 1..3 : FLe(bmin[k], p[k]) /\ FLe(p[k], bmax[k])

\* the parameters at which the ray's line meets a face plane of the box,
\* with both ends of [0, tMax]: if the segment meets the box at all, it
\* meets it at one of these
CrossingTimes(ro, rd, t_max, bmin, bmax) ==
    {Zero, t_max}
    \cup {FDiv(FSub(bmin[k], ro[k]), rd[k]) : k \in {j \in 1..3 : rd[j] # Zero}}
    \cup {FDiv(FSub(bmax[k], ro[k]), rd[k]) : k \in {j \in 1..3 : rd[j] # Zero}}

\* the forward half-line restricted to [0, tMax] meets the closed box
RayMeetsBox(ro, rd, t_max, bmin, bmax) ==
    \E t \in CrossingTimes(ro, rd, t_max, bmin, bmax) :
        /\ FLe(Zero, t) /\ FLe(t, t_max)
        /\ InBox(PointAt(ro, rd, t), bmin, bmax)

CallMissesBox ==
    ~RayMeetsBox(call.ro, call.rd, call.t_max,
                 calculate_bounds(grid)[1], calculate_bounds(grid)[2])

\* the current cell lies outside the integer limits of the padded box
CellOutOfLimits ==
    LET b == calculate_bounds(grid)
        c == <<dda.cx, dda.cy, dda.cz>>
    IN  \E k \in 1..3 : c[k] < FloorI32(b[1][k]) \/ c[k] > CeilI32(b[2][k])

\* C3: a ray whose segment [0, tMax] does not meet the padded bounding box
\* gets no hit, and a loop pass that finds the current cell outside the
\* integer limits of the padded box ends the traversal with no hit.
C3_NoHitOutsideBounds ==
    [][/\ (pc = "done" /\ CallMissesBox) => ~out.is_intersecting
       /\ (pc = "loop" /\ CellOutOfLimits) => (pc' = "done" /\ ~out'.is_intersecting)
      ]_vars

C3_Witness == pc = "done" /\ CallMissesBox /\ exit = "outside" /\ CellOutOfLimits

\* C4: a call looks up at most max_steps cells, every loop pass either
\* returns or uses up one unit of the budget, and a call that runs out of
\* budget returns no hit.
C4_StepBudget ==
    [][/\ pc # "idle" => (lookups <= call.max_steps /\ dda.i <= call.max_steps)
       /\ pc = "loop" => (pc' = "done" \/ (dda'.i = dda.i + 1 /\ lookups' = lookups + 1))
       /\ (pc = "done" /\ exit = "budget") => ~out.is_intersecting
      ]_vars

\* a ray parallel to the y axis uses up a budget of two steps
C4_Witness ==
    /\ pc = "done" /\ exit = "budget" /\ call.max_steps = 2 /\ lookups = 2
    /\ call.rd[1] = Zero /\ call.rd[3] = Zero

\* C5: every hit has 0 <= u < 1 and 0 <= v < 1.
C5_UvInUnitInterval ==
    (pc = "done" /\ out.is_intersecting) =>
        /\ FLe(Zero, out.u) /\ FLt(out.u, One)
        /\ FLe(Zero, out.v) /\ FLt(out.v, One)

\* C6: every hit has t > 0.
C6_PositiveT ==
    (pc = "done" /\ out.is_intersecting) => FGt(out.distance, Zero)

\* ------------------------------------------------------------------------
\* Cube::ray_intersect and Plane::ray_intersect
\* ------------------------------------------------------------------------
\* lines 13-27: the slab interval of the box
Cube_slab(center, size, ro, rd) ==
    LET half_size == FDiv(size, FromInt(2))
        hv == <<half_size, half_size, half_size>>
        min_bounds == VSub(center, hv)
        max_bounds == VAdd(center, hv)
        inv_dir == <<FDiv(One, rd[1]), FDiv(One, rd[2]), FDiv(One, rd[3])>>
        t1 == FMul(FSub(min_bounds[1], ro[1]), inv_dir[1])
        t2 == FMul(FSub(max_bounds[1], ro[1]), inv_dir[1])
        t3 == FMul(FSub(min_bounds[2], ro[2]), inv_dir[2])
        t4 == FMul(FSub(max_bounds[2], ro[2]), inv_dir[2])
        t5 == FMul(FSub(min_bounds[3], ro[3]), inv_dir[3])
        t6 == FMul(FSub(max_bounds[3], ro[3]), inv_dir[3])
    IN  [tmin |-> FMax(FMax(FMin(t1, t2), FMin(t3, t4)), FMin(t5, t6)),
         tmax |-> FMin(FMin(FMax(t1, t2), FMax(t3, t4)), FMax(t5, t6))]

\* lines 39-73: the hit record of the box for ray parameter t
Cube_hit(center, size, material, ro, rd, t) ==
    LET half_size == FDiv(size, FromInt(2))
        point == VAdd(ro, VScale(rd, t))
        local_point == VSub(point, center)
        abs_local == <<FAbs(local_point[1]), FAbs(local_point[2]), FAbs(local_point[3])>>
        coord(k) == FMul(FAdd(FDiv(local_point[k], half_size), One), F(1, 2))
        sign(k) == IF FGt(local_point[k], Zero) THEN One ELSE FromInt(-1)
    IN  IF FGt(abs_local[1], abs_local[2]) /\ FGt(abs_local[1], abs_local[3])
        THEN Intersect_new_with_uv(point, <<sign(1), Zero, Zero>>, t, material,
                                   coord(3), coord(2))
        ELSE IF FGt(abs_local[2], abs_local[3])
        THEN Intersect_new_with_uv(point, <<Zero, sign(2), Zero>>, t, material,
                                   coord(1), coord(3))
        ELSE Intersect_new_with_uv(point, <<Zero, Zero, sign(3)>>, t, material,
                                   coord(1), coord(2))

\* mutant: the chosen t is not tested against 0
Cube_ray_intersect_no_reject(center, size, material, ro, rd) ==
    LET s == Cube_slab(center, size, ro, rd)
        t == IF FGt(s.tmin, Zero) THEN s.tmin ELSE s.tmax
    IN  IF FLt(s.tmax, Zero) \/ FGt(s.tmin, s.tmax) THEN Intersect_empty
        ELSE Cube_hit(center, size, material, ro, rd, t)

Cube_ray_intersect(center, size, material, ro, rd) ==
    LET s == Cube_slab(center, size, ro, rd)
        t == IF FGt(s.tmin, Zero) THEN s.tmin ELSE s.tmax
    IN  IF FLt(s.tmax, Zero) \/ FGt(s.tmin, s.tmax) THEN Intersect_empty
        ELSE IF FLe(t, Zero) THEN Intersect_empty
        ELSE Cube_hit(center, size, material, ro, rd, t)

\* mutant: the plane's own normal is returned whatever side the ray comes from
Plane_ray_intersect_no_flip(point, normal, material, ro, rd) ==
    LET denom == VDot(normal, rd)
        t == FDiv(VDot(VSub(point, ro), normal), denom)
    IN  IF FLt(FAbs(denom), EPSILON) THEN Intersect_empty
        ELSE IF FLe(t, Zero) THEN Intersect_empty
        ELSE Intersect_new(VAdd(ro, VScale(rd, t)), normal, t, material)

Plane_ray_intersect(point, normal, material, ro, rd) ==
    LET denom == VDot(normal, rd)
        t == FDiv(VDot(VSub(point, ro), normal), denom)
    IN  IF FLt(FAbs(denom), EPSILON) THEN Intersect_empty
        ELSE IF FLe(t, Zero) THEN Intersect_empty
        ELSE Intersect_new(VAdd(ro, VScale(rd, t)),
                           IF FLt(denom, Zero) THEN normal ELSE VNeg(normal),
                           t, material)

\* the boxes, planes and ray origins the primitives are tried on
CubeCenters == {<<Zero, Zero, Zero>>, <<H(1), H(1), H(1)>>}

CubeSizes == {FromInt(2), FromInt(1)}

PlanePoints == {<<Zero, Zero, Zero>>, <<Zero, FromInt(-1), Zero>>}

PlaneNormals ==
    { <<Zero, One, Zero>>, <<Zero, FromInt(-1), Zero>>, <<One, Zero, Zero>>,
      <<F(3, 5), F(4, 5), Zero>>, <<Zero, FromInt(2), Zero>> }

PrimOrigins ==
    { <<Zero, Zero, Zero>>, <<One, Zero, Zero>>, <<FromInt(3), Zero, Zero>>,
      <<Zero, FromInt(5), Zero>>, <<H(1), FromInt(-2), H(1)>>,
      <<FromInt(-3), H(1), Zero>> }

InitPrim == Init

CubeRayIntersect(center, size, ro, rd) ==
    /\ prim = NoPrim
    /\ prim' = [shape |-> "cube", center |-> center, size |-> size,
                ro |-> ro, rd |-> rd,
                out |-> Cube_ray_intersect(center, size, "M", ro, rd)]
    /\ UNCHANGED <<gridVars, cast, frame, tex, app, got, ray, shaded, sample, loaders>>

PlaneRayIntersect(point, normal, ro, rd) ==
    /\ prim = NoPrim
    /\ prim' = [shape |-> "plane", point |-> point, normal |-> normal,
                ro |-> ro, rd |-> rd,
                out |-> Plane_ray_intersect(point, normal, "M", ro, rd)]
    /\ UNCHANGED <<gridVars, cast, frame, tex, app, got, ray, shaded, sample, loaders>>

\* the caller takes the result
PrimReturn ==
    /\ prim # NoPrim
    /\ prim' = NoPrim
    /\ UNCHANGED <<gridVars, cast, frame, tex, app, got, ray, shaded, sample, loaders>>

NextPrim ==
    \/ \E c \in CubeCenters, sz \in CubeSizes, ro \in PrimOrigins, rd \in Directions :
          CubeRayIntersect(c, sz, ro, rd)
    \/ \E p \in PlanePoints, n \in PlaneNormals, ro \in PrimOrigins, rd \in Directions :
          PlaneRayIntersect(p, n, ro, rd)
    \/ PrimReturn

SpecPrim == InitPrim /\ [][NextPrim]_vars

\* C7: Plane::ray_intersect returns no hit when |direction.normal| < 1e-6,
\* and the normal of every hit it returns has a negative dot product with
\* the direction: the plane's normal when direction.normal < 0, its negation
\* otherwise.
C7_PlaneNormalFacesRay ==
    prim.shape = "plane" =>
        LET dn == VDot(prim.rd, prim.normal)
        IN  /\ FLt(FAbs(dn), EPSILON) => ~prim.out.is_intersecting
            /\ prim.out.is_intersecting =>
                 /\ FLt(VDot(prim.out.normal, prim.rd), Zero)
                 /\ prim.out.normal =
                        IF FLt(dn, Zero) THEN prim.normal ELSE VNeg(prim.normal)

\* a hit from the back of the plane: the returned normal is the negation
C7_Witness ==
    /\ prim.shape = "plane" /\ prim.out.is_intersecting
    /\ FGt(VDot(prim.rd, prim.normal), Zero)
    /\ prim.out.normal = VNeg(prim.normal)

\* the parameter at which the ray's line meets the plane
PlaneSolvedT ==
    FDiv(VDot(VSub(prim.point, prim.ro), prim.normal), VDot(prim.normal, prim.rd))

CubeChosenT ==
    LET s == Cube_slab(prim.center, prim.size, prim.ro, prim.rd)
    IN  IF FGt(s.tmin, Zero) THEN s.tmin ELSE s.tmax

\* C8: neither primitive returns a hit with t <= 0: a box with tmax < 0 or
\* tmin > tmax or chosen t <= 0 gives no hit, and so does a plane whose
\* solved t is <= 0.
C8_PrimitivesRejectNonPositiveT ==
    /\ prim.shape # "none" =>
         (prim.out.is_intersecting => FGt(prim.out.distance, Zero))
    /\ prim.shape = "cube" =>
         LET s == Cube_slab(prim.center, prim.size, prim.ro, prim.rd)
         IN  (FLt(s.tmax, Zero) \/ FGt(s.tmin, s.tmax) \/ FLe(CubeChosenT, Zero))
                 => ~prim.out.is_intersecting
    /\ prim.shape = "plane" =>
         (FLe(PlaneSolvedT, Zero) => ~prim.out.is_intersecting)

\* a ray that starts on the face of the box it leaves through: tmax = 0
C8_Witness ==
    /\ prim.shape = "cube" /\ ~prim.out.is_intersecting
    /\ LET s == Cube_slab(prim.center, prim.size, prim.ro, prim.rd)
       IN  ~FLt(s.tmax, Zero) /\ ~FGt(s.tmin, s.tmax) /\ CubeChosenT = Zero

\* ------------------------------------------------------------------------
\* cast_ray_recursive and shade_pixel_pbr
\* ------------------------------------------------------------------------
MAX_RAY_DIST == 50

MAX_REFLECTIONS == 3

\* the fields of Material::new_with_type that the caster and the shader read
MaterialTable ==
    [Gold     |-> [albedo2 |-> F(3, 10), metallic |-> One, specular |-> FromInt(120),
                   roughness |-> F(15, 100), emission |-> Zero],
     Obsidian |-> [albedo2 |-> F(2, 10), metallic |-> Zero, specular |-> FromInt(90),
                   roughness |-> F(15, 100), emission |-> Zero],
     Grass    |-> [albedo2 |-> F(2, 100), metallic |-> Zero, specular |-> FromInt(8),
                   roughness |-> F(8, 10), emission |-> Zero],
     Dirt     |-> [albedo2 |-> Zero, metallic |-> Zero, specular |-> FromInt(2),
                   roughness |-> F(95, 100), emission |-> Zero],
     Magma    |-> [albedo2 |-> F(1, 10), metallic |-> Zero, specular |-> FromInt(25),
                   roughness |-> F(3, 10), emission |-> F(8, 10)]]

\* Colours are kept as terms: the sky gradient, the texture samples, powf and
\* the 8-bit quantisation are not evaluated.
BLACK == [kind |-> "black"]

enhanced_skybox(rd) == [kind |-> "sky", rd |-> rd]

sky_or_black(skybox_enabled, rd) ==
    IF skybox_enabled THEN enhanced_skybox(rd) ELSE BLACK

reflect_vector(incident, normal) ==
    VSub(incident, VScale(VScale(normal, FromInt(2)), VDot(incident, normal)))

SURFACE_OFFSET == F(1, 10000)

\* mutant: the shadow ray is cast for surfaces that face away from the light too
shadow_ray_always(hit_point, normal, sun_dir) ==
    LET ndotl == FMax(VDot(normal, VNeg(sun_dir)), Zero)
    IN  IF FGe(ndotl, Zero)
        THEN [cast |-> TRUE,
              ro |-> VAdd(hit_point, VScale(normal, SURFACE_OFFSET)),
              rd |-> VNeg(sun_dir), t_max |-> FromInt(20), max_steps |-> 50]
        ELSE [cast |-> FALSE]

\* lines 232-238: the shadow ray of shade_pixel_pbr, or none
shadow_ray(hit_point, normal, sun_dir) ==
    LET ndotl == FMax(VDot(normal, VNeg(sun_dir)), Zero)
    IN  IF FGt(ndotl, F(5, 100))
        THEN [cast |-> TRUE,
              ro |-> VAdd(hit_point, VScale(normal, SURFACE_OFFSET)),
              rd |-> VNeg(sun_dir), t_max |-> FromInt(20), max_steps |-> 50]
        ELSE [cast |-> FALSE]

\* shade_pixel_pbr: the lighting terms of the colour it returns.  shadow is
\* the result of the traversal of line 234 when shadow_ray asks for one.
shade_pixel_pbr(hit_point, normal, mat, u, v, sun_dir, shadow, cam_pos) ==
    LET m == MaterialTable[mat]
        ndotl == FMax(VDot(normal, VNeg(sun_dir)), Zero)
        sr == shadow_ray(hit_point, normal, sun_dir)
        shadow_factor ==
            IF sr.cast
            THEN IF shadow.is_intersecting THEN F(3, 10) ELSE One
            ELSE One
    IN  [kind |-> "shaded", material |-> mat, u |-> u, v |-> v,
         ambient |-> F(25, 100),
         diffuse |-> FMul(ndotl, F(75, 100)),
         shadow_factor |-> shadow_factor,
         shadow_rays |-> IF sr.cast THEN 1 ELSE 0,
         has_specular |-> FGt(m.specular, FromInt(5)),
         view_from |-> cam_pos,
         emission |-> IF FGt(m.emission, Zero) THEN m.emission ELSE Zero]

\* mutant: the depth test is off by one
depth_exceeded_off_by_one(depth) == depth > MAX_REFLECTIONS + 1

\* line 151
depth_exceeded(depth) == depth > MAX_REFLECTIONS

\* mutant: the reflection is cast whatever the depth
wants_reflection_uncapped(mat, depth) ==
    FGt(MaterialTable[mat].albedo2, F(1, 100))

\* line 182
wants_reflection(mat, depth) ==
    FGt(MaterialTable[mat].albedo2, F(1, 100)) /\ depth < MAX_REFLECTIONS

\* lines 193-209: the mix of the shaded colour and the reflected colour
blend_reflection(mat, base_color, reflect_color) ==
    [kind |-> "blend",
     metallic |-> FGt(MaterialTable[mat].metallic, F(1, 2)),
     strength |-> MaterialTable[mat].albedo2,
     base |-> base_color, reflection |-> reflect_color]

color_to_vector3(color) == [kind |-> "vec3", of |-> color]

vector3_to_color(v) == [kind |-> "rgb8", of |-> v]

\* the scenes and the rays the caster is run on
Scenes ==
    {VoxelGrid_new,
     insert(insert(VoxelGrid_new, 0, 0, 0, "Gold"), 0, 3, 0, "Obsidian"),
     insert(insert(VoxelGrid_new, 0, 0, 0, "Dirt"), 1, 1, 0, "Grass"),
     insert(VoxelGrid_new, 0, 0, 0, "Magma"),
     insert(insert(VoxelGrid_new, 0, 0, 0, "Dirt"), 0, 60, 0, "Dirt")}

CastOrigins ==
    {<<H(1), H(4), H(1)>>, <<H(1), H(10), H(1)>>, <<H(3), H(5), H(1)>>,
     <<H(-5), H(1), H(1)>>}

CastDirections ==
    {<<F(0, 1), F(-1, 1), F(0, 1)>>, <<F(0, 1), F(1, 1), F(0, 1)>>,
     <<F(1, 1), F(0, 1), F(0, 1)>>, <<F(-3, 5), F(-4, 5), F(0, 1)>>}

SunDirs ==
    {<<F(-3, 5), F(-4, 5), F(0, 1)>>, <<F(-2, 3), F(-2, 3), F(-1, 3)>>,
     <<F(0, 1), F(-1, 1), F(0, 1)>>}

MaxStartDepth == 5

NoColor == [kind |-> "none"]

InitCast ==
    /\ grid \in Scenes
    /\ pc = "idle"
    /\ call = NoCall
    /\ dda = NoDda
    /\ lookups = 0
    /\ exit = "none"
    /\ out = Intersect_empty
    /\ prim = NoPrim
    /\ cast = NoCast
    /\ frame = NoFrame
    /\ tex = NoTex
    /\ app = NoApp
    /\ got = NoGot
    /\ ray = NoRay
    /\ shaded = NoShaded
    /\ sample = NoSample
    /\ loaders = NoLoaders

CastTop == cast.stack[Len(cast.stack)]

CastEntered == cast.pc = "run" /\ CastTop.stage = "enter"

\* a return of the innermost invocation: to its caller, or out of the caster
CastReturnValue(c, value) ==
    LET rest == SubSeq(c.stack, 1, Len(c.stack) - 1)
    IN  [c EXCEPT !.stack = rest, !.ret = value,
                  !.pc = IF rest = <<>> THEN "done" ELSE "run"]

\* a call of cast_ray_recursive from outside
CastRayRecursive(ro, rd, skybox_enabled, sun_dir, depth) ==
    /\ cast = NoCast
    /\ cast' = [pc |-> "run", skybox_enabled |-> skybox_enabled, sun_dir |-> sun_dir,
                ro |-> ro, rd |-> rd, depth |-> depth,
                stack |-> <<[ro |-> ro, rd |-> rd, depth |-> depth, stage |-> "enter"]>>,
                ret |-> NoColor, calls |-> 1,
                intersections |-> 0, shades |-> 0, shadow_rays |-> 0]
    /\ UNCHANGED <<gridVars, prim, frame, tex, app, got, ray, shaded, sample, loaders>>

\* lines 151-157
CastDepthExceeded ==
    /\ CastEntered
    /\ depth_exceeded(CastTop.depth)
    /\ cast' = CastReturnValue(cast, sky_or_black(cast.skybox_enabled, CastTop.rd))
    /\ UNCHANGED <<gridVars, prim, frame, tex, app, got, ray, shaded, sample, loaders>>

CastStage(c, stage) == [c EXCEPT !.stack[Len(c.stack)].stage = stage]

\* line 162: the call of intersect_ray for the ray
CastIntersect ==
    /\ CastEntered
    /\ ~depth_exceeded(CastTop.depth)
    /\ intersect_ray_begin(CastTop.ro, CastTop.rd, FromInt(MAX_RAY_DIST), MAX_DDA_STEPS)
    /\ cast' = CastStage([cast EXCEPT !.intersections = @ + 1], "traced")
    /\ UNCHANGED <<prim, frame, tex, app, got, ray, shaded, sample, loaders>>

\* lines 162-170: intersect_ray has returned; the return on a miss
CastTakeHit ==
    /\ cast.pc = "run"
    /\ CastTop.stage = "traced"
    /\ intersect_ray_end
    /\ LET n == Len(cast.stack)
       IN  IF ~out.is_intersecting
           THEN cast' = CastReturnValue(cast, sky_or_black(cast.skybox_enabled, CastTop.rd))
           ELSE cast' = [cast EXCEPT !.stack[n] =
                            [ro |-> CastTop.ro, rd |-> CastTop.rd, depth |-> CastTop.depth,
                             stage |-> "shade", hit |-> out]]
    /\ UNCHANGED <<prim, frame, tex, app, got, ray, shaded, sample, loaders>>

\* lines 181-190 and 212: after shade_pixel_pbr, either the shaded colour is
\* returned or the reflected ray is cast
CastAfterShade(c, base_color) ==
    LET top == c.stack[Len(c.stack)]
        hit == top.hit
        child == [ro |-> VAdd(hit.point, VScale(hit.normal, SURFACE_OFFSET)),
                  rd |-> reflect_vector(top.rd, hit.normal),
                  depth |-> top.depth + 1, stage |-> "enter"]
        waiting == [ro |-> top.ro, rd |-> top.rd, depth |-> top.depth, stage |-> "await",
                    material |-> hit.material, base_color |-> base_color]
    IN  IF wants_reflection(hit.material, top.depth)
        THEN [c EXCEPT !.stack = Append([@ EXCEPT ![Len(c.stack)] = waiting], child),
                       !.ret = NoColor,
                       !.calls = @ + 1]
        ELSE CastReturnValue(c, vector3_to_color(base_color))

CastShaded(shadow) ==
    shade_pixel_pbr(CastTop.hit.point, CastTop.hit.normal, CastTop.hit.material,
                    CastTop.hit.u, CastTop.hit.v, cast.sun_dir, shadow, CastTop.ro)

\* lines 173-176 and 226-234: shade_pixel_pbr up to its shadow traversal, or
\* all of it when it casts no shadow ray
CastShade ==
    /\ cast.pc = "run"
    /\ CastTop.stage = "shade"
    /\ \E sr \in {shadow_ray(CastTop.hit.point, CastTop.hit.normal, cast.sun_dir)} :
          IF sr.cast
          THEN /\ intersect_ray_begin(sr.ro, sr.rd, sr.t_max, sr.max_steps)
               /\ cast' = CastStage([cast EXCEPT !.shades = @ + 1, !.shadow_rays = @ + 1],
                                    "shadow")
          ELSE /\ cast' = CastAfterShade([cast EXCEPT !.shades = @ + 1],
                                         CastShaded(Intersect_empty))
               /\ UNCHANGED gridVars
    /\ UNCHANGED <<prim, frame, tex, app, got, ray, shaded, sample, loaders>>

\* lines 234-265: the shadow traversal has returned; the rest of shade_pixel_pbr
CastShadow ==
    /\ cast.pc = "run"
    /\ CastTop.stage = "shadow"
    /\ intersect_ray_end
    /\ cast' = CastAfterShade(cast, CastShaded(out))
    /\ UNCHANGED <<prim, frame, tex, app, got, ray, shaded, sample, loaders>>

\* lines 190-212: the recursive call has returned
CastBlend ==
    /\ cast.pc = "run"
    /\ CastTop.stage = "await"
    /\ cast.ret # NoColor
    /\ cast' = CastReturnValue(cast,
                  vector3_to_color(blend_reflection(CastTop.material, CastTop.base_color,
                                                    color_to_vector3(cast.ret))))
    /\ UNCHANGED <<gridVars, prim, frame, tex, app, got, ray, shaded, sample, loaders>>

\* the outside caller takes the colour
CastDone ==
    /\ cast.pc = "done"
    /\ cast' = NoCast
    /\ UNCHANGED <<gridVars, prim, frame, tex, app, got, ray, shaded, sample, loaders>>

NextCast ==
    \/ \E ro \in CastOrigins, rd \in CastDirections, sky \in BOOLEAN,
          sun \in SunDirs, depth \in 0..MaxStartDepth :
          CastRayRecursive(ro, rd, sky, sun, depth)
    \/ CastDepthExceeded
    \/ CastIntersect
    \/ LoopExhausted
    \/ LoopOutside
    \/ LoopTooFar
    \/ LoopHit
    \/ LoopAdvance
    \/ CastTakeHit
    \/ CastShade
    \/ CastShadow
    \/ CastBlend
    \/ CastDone

SpecCast == InitCast /\ [][NextCast]_vars

\* C9: a call of cast_ray_recursive entered at depth MAX_REFLECTIONS + 1
\* returns at once, without any grid intersection and without shading:
\* the sky colour of the ray direction when the sky flag is set, black otherwise.
C9_DepthCapFallback ==
    (cast.pc = "done" /\ cast.depth = MAX_REFLECTIONS + 1) =>
        /\ cast.ret = (IF cast.skybox_enabled THEN enhanced_skybox(cast.rd) ELSE BLACK)
        /\ cast.calls = 1
        /\ cast.intersections = 0
        /\ cast.shades = 0
        /\ cast.shadow_rays = 0

\* the call at depth 4 is for a ray that points down at an occupied cell
C9_Witness ==
    /\ cast.pc = "done" /\ cast.depth = MAX_REFLECTIONS + 1
    /\ cast.skybox_enabled
    /\ cast.ret = enhanced_skybox(cast.rd)
    /\ <<0, 0, 0>> \in DOMAIN grid.cells
    /\ cast.ro = <<H(1), H(10), H(1)>>
    /\ cast.rd = <<F(0, 1), F(-1, 1), F(0, 1)>>

\* C11: on a grid with no cells intersect_ray returns no hit at once (no
\* slab test, no cell lookup), and a ray cast at a depth within the
\* reflection limit therefore comes back with the sky colour of its direction
\* when the sky flag is set and with black when it is not, unshaded.
C11_EmptyGridSky ==
    DOMAIN grid.cells = {} =>
        /\ pc # "loop"
        /\ pc = "done" => (exit = "empty_grid" /\ lookups = 0 /\ ~out.is_intersecting)
        /\ (cast.pc = "done" /\ cast.depth <= MAX_REFLECTIONS) =>
              /\ cast.ret = (IF cast.skybox_enabled THEN enhanced_skybox(cast.rd)
                             ELSE BLACK)
              /\ cast.calls = 1
              /\ cast.intersections = 1
              /\ cast.shades = 0
              /\ cast.shadow_rays = 0

\* a primary ray (depth 0) on the empty grid with the sky switched off
C11_Witness ==
    /\ DOMAIN grid.cells = {}
    /\ cast.pc = "done" /\ cast.depth = 0
    /\ ~cast.skybox_enabled
    /\ cast.ret = BLACK
    /\ cast.intersections = 1

\* the invocations in progress are at consecutive depths, and each one that
\* waits for a reflection hit a material with weight > 0.01 below the limit
CastChainCapped ==
    cast.pc = "run" =>
        \A i \in 1..Len(cast.stack) :
            /\ cast.stack[i].depth = cast.depth + i - 1
            /\ i < Len(cast.stack) =>
                  /\ cast.stack[i].stage = "await"
                  /\ FGt(MaterialTable[cast.stack[i].material].albedo2, F(1, 100))
                  /\ cast.stack[i].depth < MAX_REFLECTIONS

\* a call in progress can always take its next step
CastCanStep ==
    \/ CastEntered /\ (depth_exceeded(CastTop.depth) \/ pc = "idle")
    \/ CastTop.stage \in {"traced", "shadow"} /\ pc \in {"loop", "done"}
    \/ CastTop.stage = "shade" /\ pc = "idle"
    \/ CastTop.stage = "await" /\ cast.ret # NoColor

\* the steps an invocation at the given depth and stage can still take,
\* the invocations it can still make included
CastRank(depth, stage) ==
    IF stage = "await" THEN 1
    ELSE IF depth > MAX_REFLECTIONS THEN 1
    ELSE 6 * (MAX_REFLECTIONS - depth) + 6
         - (CASE stage = "enter" -> 0 [] stage = "traced" -> 1
              [] stage = "shade" -> 2 [] stage = "shadow" -> 3)

\* a measure of the work left in the call: the steps of the caster left,
\* then the loop passes left in the traversal in progress
CastMeasure ==
    IF cast.pc # "run" THEN 0
    ELSE (CastRank(CastTop.depth, CastTop.stage) + Len(cast.stack) - 1)
            * (MAX_DDA_STEPS + 2)
         + (IF pc = "loop" THEN call.max_steps - dda.i + 1 ELSE 0)

\* C12: a call at depth 0 makes at most 4 nested invocations (depths 0..3)
\* and at most 4 primary grid intersections, each invocation recursing at most
\* once, with depth + 1, and only on a reflective weight > 0.01 at a depth
\* below MAX_REFLECTIONS; and the call terminates: it can always step, and
\* every step brings the measure of the work left down.
C12_ReflectionCap ==
    [][/\ (cast.pc \in {"run", "done"} /\ cast.depth = 0) =>
             /\ cast.calls <= MAX_REFLECTIONS + 1
             /\ cast.intersections <= MAX_REFLECTIONS + 1
             /\ cast.intersections <= cast.calls
             /\ CastChainCapped
             /\ cast.pc = "run" => Len(cast.stack) <= MAX_REFLECTIONS + 1
       /\ cast.pc = "run" =>
             /\ CastCanStep
             /\ cast'.calls \in {cast.calls, cast.calls + 1}
             /\ CastMeasure' < CastMeasure
      ]_vars

\* a chain of reflections between two reflective cells that uses all four depths
C12_Witness ==
    /\ cast.pc = "done" /\ cast.depth = 0
    /\ cast.calls = MAX_REFLECTIONS + 1
    /\ cast.intersections = MAX_REFLECTIONS + 1
    /\ cast.ret.kind = "rgb8" /\ cast.ret.of.kind = "blend"

\* ---------------------------------------------------------------------------
\* texture.rs: the process-wide texture cache

MaxTextureCalls == 4

TextureTypes == {"Grass", "Gold", "Magma"}

\* what image::open finds under ./images/ at the time of a call
Images == {[ok |-> FALSE, width |-> 0, height |-> 0],
           [ok |-> TRUE, width |-> 2, height |-> 2]}

\* texture.rs 48-63
get_material_info(material_type) ==
    CASE material_type = "Grass" ->
             [filename |-> "grass.png", fallback_color |-> Vec(F(4, 10), F(7, 10), F(2, 10))]
      [] material_type = "Netherrack" ->
             [filename |-> "netherrack.png", fallback_color |-> Vec(F(6, 10), F(2, 10), F(2, 10))]
      [] material_type = "Dirt" ->
             [filename |-> "dirt.png", fallback_color |-> Vec(F(5, 10), F(3, 10), F(2, 10))]
      [] material_type = "Stone" ->
             [filename |-> "stone.png", fallback_color |-> Vec(F(5, 10), F(5, 10), F(5, 10))]
      [] material_type = "Magma" ->
             [filename |-> "magma.png", fallback_color |-> Vec(F(8, 10), F(3, 10), F(1, 10))]
      [] material_type = "Gold" ->
             [filename |-> "gold.png", fallback_color |-> Vec(One, F(8, 10), Zero)]
      [] material_type = "Obsidian" ->
             [filename |-> "obsidian.png", fallback_color |-> Vec(F(1, 10), F(1, 10), F(2, 10))]
      [] material_type = "GlowingObsidian" ->
             [filename |-> "glowing_obsidian.png",
              fallback_color |-> Vec(F(4, 10), F(2, 10), F(8, 10))]
      [] material_type = "StoneStairs" ->
             [filename |-> "stone_stairs.png", fallback_color |-> Vec(F(6, 10), F(6, 10), F(6, 10))]
      [] material_type = "StoneSlab" ->
             [filename |-> "stone_slab.png",
              fallback_color |-> Vec(F(55, 100), F(55, 100), F(55, 100))]
      [] material_type = "StonePillar" ->
             [filename |-> "stone_pillar.png", fallback_color |-> Vec(F(7, 10), F(7, 10), F(7, 10))]
      [] material_type = "WoodChest" ->
             [filename |-> "wood_chest.png", fallback_color |-> Vec(F(6, 10), F(4, 10), F(2, 10))]

\* mutant: the lookup never finds an entry
cache_get_miss(cache, filename) == {}

\* texture.rs 69: cache.get(filename), the Option as a set of at most one entry
cache_get(cache, filename) == {e \in cache : e.name = filename}

\* texture.rs 113: HashMap::insert replaces the entry of an equal key
cache_insert(cache, filename, data) ==
    {e \in cache : e.name # filename} \cup {[name |-> filename, data |-> data]}

\* texture.rs 121-147, the pixels left out
create_procedural_texture(id, fallback_color) ==
    [id |-> id, source |-> "procedural", width |-> 16, height |-> 16,
     fallback_color |-> fallback_color]

\* texture.rs 80-106: the decoded file, or the procedural texture when
\* image::open fails
texture_data(id, img, fallback_color) ==
    IF img.ok
    THEN [id |-> id, source |-> "file", width |-> img.width, height |-> img.height,
          fallback_color |-> fallback_color]
    ELSE create_procedural_texture(id, fallback_color)

\* texture.rs 65-119: the cache after the call and the Texture returned
load_cached_texture(t, filename, fallback_color, img) ==
    IF cache_get(t.cache, filename) # {}
    THEN [tex |-> t,
          texture |-> [data |-> (CHOOSE e \in cache_get(t.cache, filename) : TRUE).data]]
    ELSE [tex |-> [t EXCEPT !.cache = cache_insert(t.cache, filename,
                                          texture_data(t.next, img, fallback_color)),
                            !.next = t.next + 1],
          texture |-> [data |-> texture_data(t.next, img, fallback_color)]]

\* texture.rs 43-46
Texture_new_with_type(t, material_type, img) ==
    load_cached_texture(t, get_material_info(material_type).filename,
                        get_material_info(material_type).fallback_color, img)

InitTexture == Init

\* a call of Texture::new_with_type; the log entry tells whether the call
\* found the name in the cache and which TextureData the Texture carries
TextureNewWithType(material_type, img) ==
    /\ Len(tex.log) < MaxTextureCalls
    /\ tex' = [Texture_new_with_type(tex, material_type, img).tex EXCEPT
                  !.log = Append(@,
                      [op |-> IF Texture_new_with_type(tex, material_type, img).tex.next
                                    = tex.next
                              THEN "cached" ELSE "loaded",
                       name |-> get_material_info(material_type).filename,
                       data |-> Texture_new_with_type(tex, material_type, img).texture.data])]
    /\ UNCHANGED <<gridVars, prim, cast, frame, app, got, ray, shaded, sample, loaders>>

\* texture.rs 305-309
ClearTextureCache ==
    /\ Len(tex.log) < MaxTextureCalls
    /\ tex' = [tex EXCEPT !.cache = {},
                          !.log = Append(@, [op |-> "clear", name |-> "", data |-> NoData])]
    /\ UNCHANGED <<gridVars, prim, cast, frame, app, got, ray, shaded, sample, loaders>>

NextTexture ==
    \/ \E material_type \in TextureTypes, img \in Images :
           TextureNewWithType(material_type, img)
    \/ ClearTextureCache

SpecTexture == InitTexture /\ [][NextTexture]_vars

\* the calls i < j of the log are for the same name with no clear between them
SameCacheLife(i, j) ==
    /\ i < j
    /\ tex.log[i].op # "clear"
    /\ tex.log[j].op # "clear"
    /\ tex.log[i].name = tex.log[j].name
    /\ \A k \in i..j : tex.log[k].op # "clear"

\* C19: in a sequential series of Texture::new_with_type calls the image of a
\* file name is decoded or generated at most once between two
\* clear_texture_cache calls, the cache holds at most one entry per name, and
\* every later Texture of that name carries the TextureData of the first load
C19_TextureCachedOnce ==
    /\ \A e1, e2 \in tex.cache : e1.name = e2.name => e1 = e2
    /\ \A i, j \in 1..Len(tex.log) :
           SameCacheLife(i, j) =>
               /\ tex.log[j].op = "cached"
               /\ tex.log[j].data = tex.log[i].data
    /\ \A j \in 1..Len(tex.log) :
           (\A k \in j..Len(tex.log) : tex.log[k].op # "clear") =>
               [name |-> tex.log[j].name, data |-> tex.log[j].data] \in tex.cache

\* a name loaded when its file was missing, asked for again when the file is
\* there, and a second name loaded in between
C19_Witness ==
    /\ Len(tex.log) = 3
    /\ tex.log[1].op = "loaded" /\ tex.log[1].data.source = "procedural"
    /\ tex.log[2].op = "loaded" /\ tex.log[2].name # tex.log[1].name
    /\ tex.log[3].op = "cached" /\ tex.log[3].name = tex.log[1].name
    /\ Cardinality(tex.cache) = 2

\* ------------------------------------------------------------------------
\* render_parallel_optimized
\* ------------------------------------------------------------------------
MaxWidth == 2

MaxHeight == 2

Workers == {"w1", "w2"}

\* SimpleCamera::get_ray up to the camera basis: the normalised device
\* coordinates and the aspect ratio of the pixel; tan and normalized() are
\* not evaluated.
get_ray(x, y, width, height) ==
    [aspect |-> FDiv(FromInt(width), FromInt(height)),
     ndc_x  |-> FSub(FMul(FDiv(FAdd(FromInt(x), H(1)), FromInt(width)), FromInt(2)), One),
     ndc_y  |-> FSub(One, FMul(FDiv(FAdd(FromInt(y), H(1)), FromInt(height)), FromInt(2)))]

\* lines 300-303: the colour of one pixel, as the term cast_ray_recursive(ray, state, 0)
pixel_color(x, y, width, height, skybox_enabled) ==
    [kind |-> "traced", ray |-> get_ray(x, y, width, height), depth |-> 0,
     skybox_enabled |-> skybox_enabled]

\* mutant: the enumeration runs x outer, y inner
pixel_coords_column_major(width, height) ==
    [i \in 1..(width * height) |-> <<(i - 1) \div height, (i - 1) % height>>]

\* lines 294-296: (0..height).flat_map(|y| (0..width).map(|x| (x, y)))
pixel_coords(width, height) ==
    [i \in 1..(width * height) |-> <<(i - 1) % width, (i - 1) \div width>>]

\* Vector3::normalized: a vector of length 0 is divided by 1
normalized(v) ==
    VScale(v, FDiv(One, IF FSqrt(VDot(v, v)) = Zero THEN One ELSE FSqrt(VDot(v, v))))

\* main.rs 436-444: the sun of the render state
MainSun == normalized(<<F(-6, 10), F(-8, 10), F(-4, 10)>>)

\* the texture cache once the textures of the material types in ms are loaded
RECURSIVE textures_loaded(_, _, _)
textures_loaded(t, ms, img) ==
    IF ms = {} THEN t
    ELSE textures_loaded(Texture_new_with_type(t, CHOOSE m \in ms : TRUE, img).tex,
                         ms \ {CHOOSE m \in ms : TRUE}, img)

\* a scene, and the texture cache as the construction of its materials left it
InitRender ==
    /\ grid \in Scenes
    /\ pc = "idle"
    /\ call = NoCall
    /\ dda = NoDda
    /\ lookups = 0
    /\ exit = "none"
    /\ out = Intersect_empty
    /\ prim = NoPrim
    /\ cast = NoCast
    /\ frame = NoFrame
    /\ tex \in {textures_loaded(NoTex, {grid.cells[k] : k \in DOMAIN grid.cells}, img) :
                   img \in Images}
    /\ app = NoApp
    /\ got = NoGot
    /\ ray = NoRay
    /\ shaded = NoShaded
    /\ sample = NoSample
    /\ loaders = NoLoaders

\* main.rs 433-446: the SharedRenderState of a frame; the grid is a clone
SharedRenderState(g, skybox_enabled) ==
    [grid |-> g, sun |-> MainSun, skybox_enabled |-> skybox_enabled]

\* lines 288-299: the coordinates are enumerated and handed to the thread
\* pool.  grid, sun and skybox_enabled are the fields of state, which the
\* tasks share; entry keeps what the shared state and the texture cache were
\* when the call was made
render_parallel_optimized_call(width, height, state) ==
    /\ frame = NoFrame
    /\ LET coords == pixel_coords(width, height)
       IN  frame' = [pc |-> "map", width |-> width, height |-> height,
                     grid |-> state.grid,
                     sun |-> state.sun,
                     skybox_enabled |-> state.skybox_enabled,
                     entry |-> [state |-> state, tex |-> tex],
                     coords |-> coords,
                     slots |-> [i \in 1..Len(coords) |-> NoColor],
                     started |-> {},
                     task |-> [w \in Workers |-> 0],
                     computed |-> [i \in 1..Len(coords) |-> 0],
                     out_of_order |-> FALSE]

\* the call
RenderParallelOptimized(width, height, skybox_enabled) ==
    /\ render_parallel_optimized_call(width, height,
                                      SharedRenderState(grid, skybox_enabled))
    /\ UNCHANGED <<gridVars, prim, cast, tex, app, got, ray, shaded, sample, loaders>>

\* a worker takes an item of the parallel iterator that no worker has taken
TaskStart(w, i) ==
    /\ frame.pc = "map"
    /\ frame.task[w] = 0
    /\ i \in 1..Len(frame.coords)
    /\ i \notin frame.started
    /\ frame' = [frame EXCEPT !.started = @ \cup {i}, !.task[w] = i]
    /\ UNCHANGED <<gridVars, prim, cast, tex, app, got, ray, shaded, sample, loaders>>

\* mutant: the task asks the shared grid for its centre, which refreshes the
\* cached centre and radius
TaskFinish_refreshing_cache(w) ==
    /\ frame.pc = "map"
    /\ frame.task[w] # 0
    /\ LET i == frame.task[w]
           xy == frame.coords[i]
       IN  frame' = [frame EXCEPT
                        !.slots[i] = pixel_color(xy[1], xy[2], frame.width, frame.height,
                                                 frame.skybox_enabled),
                        !.computed[i] = @ + 1,
                        !.task[w] = 0,
                        !.grid = get_center(@).grid,
                        !.out_of_order = @ \/ \E j \in 1..(i - 1) : frame.slots[j] = NoColor]
    /\ UNCHANGED <<gridVars, prim, cast, tex, app, got, ray, shaded, sample, loaders>>

\* the worker runs the closure of lines 300-303 and the indexed collect
\* stores the colour at the position of the item.  The closure reads the
\* state through a shared reference: intersect_ray and calculate_bounds take
\* &self, and the shading reads the TextureData of the hit material
\* (texture.rs 196-221) without going through TEXTURE_CACHE
TaskFinish(w) ==
    /\ frame.pc = "map"
    /\ frame.task[w] # 0
    /\ LET i == frame.task[w]
           xy == frame.coords[i]
       IN  frame' = [frame EXCEPT
                        !.slots[i] = pixel_color(xy[1], xy[2], frame.width, frame.height,
                                                 frame.skybox_enabled),
                        !.computed[i] = @ + 1,
                        !.task[w] = 0,
                        !.out_of_order = @ \/ \E j \in 1..(i - 1) : frame.slots[j] = NoColor]
    /\ UNCHANGED <<gridVars, prim, cast, tex, app, got, ray, shaded, sample, loaders>>

\* line 304: collect() returns once every item has been mapped
RenderCollect ==
    /\ frame.pc = "map"
    /\ \A i \in 1..Len(frame.coords) : frame.slots[i] # NoColor
    /\ frame' = [pc |-> "done", width |-> frame.width, height |-> frame.height,
                 grid |-> frame.grid, sun |-> frame.sun,
                 skybox_enabled |-> frame.skybox_enabled,
                 entry |-> frame.entry,
                 pixels |-> frame.slots, computed |-> frame.computed,
                 out_of_order |-> frame.out_of_order]
    /\ UNCHANGED <<gridVars, prim, cast, tex, app, got, ray, shaded, sample, loaders>>

\* the caller takes the buffer
RenderDone ==
    /\ frame.pc = "done"
    /\ frame' = NoFrame
    /\ UNCHANGED <<gridVars, prim, cast, tex, app, got, ray, shaded, sample, loaders>>

NextRender ==
    \/ \E width \in 0..MaxWidth, height \in 0..MaxHeight, sky \in BOOLEAN :
          RenderParallelOptimized(width, height, sky)
    \/ \E w \in Workers, i \in 1..(MaxWidth * MaxHeight) : TaskStart(w, i)
    \/ \E w \in Workers : TaskFinish(w)
    \/ RenderCollect
    \/ RenderDone

SpecRender == InitRender /\ [][NextRender]_vars

\* C10: for every width >= 0 and height >= 0 and every interleaving of the
\* pixel tasks over the workers, the returned buffer has exactly width*height
\* colours, entry i is the colour traced for pixel (i mod width, i div width),
\* and every pixel has been computed exactly once.
C10_RowMajorBuffer ==
    frame.pc = "done" =>
        /\ Len(frame.pixels) = frame.width * frame.height
        /\ \A i \in 0..(frame.width * frame.height - 1) :
              /\ frame.pixels[i + 1] =
                    pixel_color(i % frame.width, i \div frame.width,
                                frame.width, frame.height, frame.skybox_enabled)
              /\ frame.computed[i + 1] = 1

\* a frame wider than high whose pixels were finished out of index order
C10_Witness ==
    /\ frame.pc = "done"
    /\ frame.width = 2 /\ frame.height = 1
    /\ Len(frame.pixels) = 2
    /\ frame.out_of_order

\* C13: during the parallel render pass no pixel task changes shared state.
\* From the call of render_parallel_optimized until its buffer is returned,
\* and for every interleaving of the pixel tasks over the workers, the cell
\* map and the cached bounds, centre and radius of the grid of the render
\* state, its light and its sky flag, the grid of the main thread and the
\* texture cache are what they were when the call was made.
C13_RenderReadsOnly ==
    frame.pc \in {"map", "done"} =>
        /\ frame.grid = frame.entry.state.grid
        /\ frame.sun = frame.entry.state.sun
        /\ frame.skybox_enabled = frame.entry.state.skybox_enabled
        /\ tex = frame.entry.tex
        /\ grid = frame.entry.state.grid

\* a 2x2 frame of a scene with textured cells, returned after its tasks
\* finished out of index order
C13_Witness ==
    /\ frame.pc = "done"
    /\ frame.width = 2 /\ frame.height = 2
    /\ frame.out_of_order
    /\ Cardinality(DOMAIN frame.grid.cells) = 2
    /\ Cardinality(tex.cache) = 2
    /\ \A i \in 1..4 : frame.computed[i] = 1

\* ---------------------------------------------------------------------------
\* voxel.rs: the bounds of the grid and the cached centre and radius

MaxQueries == 3

InitGrid == Init

\* main.rs 384: let structure_center = grid.get_center()
GetCenter ==
    /\ pc = "idle"
    /\ got.n < MaxQueries
    /\ grid' = get_center(grid).grid
    /\ got' = [n |-> got.n + 1,
               recomputed |-> got.recomputed + (IF grid.bounds_cached THEN 0 ELSE 1),
               op |-> "get_center",
               center |-> get_center(grid).value,
               radius |-> Zero]
    /\ UNCHANGED <<pc, call, dda, lookups, exit, out, prim, cast, frame, tex, app, ray, shaded, sample, loaders>>

\* main.rs 385: let structure_radius = grid.get_bounding_sphere_radius()
GetBoundingSphereRadius ==
    /\ pc = "idle"
    /\ got.n < MaxQueries
    /\ grid' = get_bounding_sphere_radius(grid).grid
    /\ got' = [n |-> got.n + 1,
               recomputed |-> got.recomputed + (IF grid.bounds_cached THEN 0 ELSE 1),
               op |-> "get_bounding_sphere_radius",
               center |-> <<Zero, Zero, Zero>>,
               radius |-> get_bounding_sphere_radius(grid).value]
    /\ UNCHANGED <<pc, call, dda, lookups, exit, out, prim, cast, frame, tex, app, ray, shaded, sample, loaders>>

NextGrid ==
    \/ \E k \in Keys, m \in Materials : Insert(k[1], k[2], k[3], m)
    \/ GetCenter
    \/ GetBoundingSphereRadius

SpecGrid == InitGrid /\ [][NextGrid]_vars

\* the smallest and the largest coordinate i over the keys of the cell map
SmallestKey(i) ==
    CHOOSE a \in {k[i] : k \in DOMAIN grid.cells} :
        \A k \in DOMAIN grid.cells : a <= k[i]

LargestKey(i) ==
    CHOOSE a \in {k[i] : k \in DOMAIN grid.cells} :
        \A k \in DOMAIN grid.cells : a >= k[i]

\* C15: after any sequence of inserts calculate_bounds() returns, per axis,
\* the smallest key minus 0.1 and the largest key plus 1.1, so its box
\* contains the unit cube of every cell; for the empty grid it returns
\* ((0,0,0),(0,0,0)).
C15_PaddedBounds ==
    IF DOMAIN grid.cells = {}
    THEN calculate_bounds(grid) = <<(<<Zero, Zero, Zero>>), (<<Zero, Zero, Zero>>)>>
    ELSE /\ \A i \in 1..3 :
               /\ calculate_bounds(grid)[1][i] = FSub(FromInt(SmallestKey(i)), F(1, 10))
               /\ calculate_bounds(grid)[2][i] = FAdd(FromInt(LargestKey(i)), F(11, 10))
         /\ \A k \in DOMAIN grid.cells : \A i \in 1..3 :
               /\ FLt(calculate_bounds(grid)[1][i], FromInt(k[i]))
               /\ FGt(calculate_bounds(grid)[2][i], FromInt(k[i] + 1))

\* two cells, the second one lower on two axes and the first one higher on
\* all three
C15_Witness ==
    /\ DOMAIN grid.cells = {<<0, 2, 1>>, <<-1, -1, 0>>}
    /\ calculate_bounds(grid) = <<(<<F(-11, 10), F(-11, 10), F(-1, 10)>>),
                                  (<<F(11, 10), F(31, 10), F(21, 10)>>)>>

\* the midpoint of a box and the distance from it to the upper corner
Midpoint(b) ==
    <<FDiv(FAdd(b[1][1], b[2][1]), FromInt(2)),
      FDiv(FAdd(b[1][2], b[2][2]), FromInt(2)),
      FDiv(FAdd(b[1][3], b[2][3]), FromInt(2))>>

DistanceSquared(p, q) == VDot(VSub(q, p), VSub(q, p))

\* C16: in every interleaving of insert, get_center and
\* get_bounding_sphere_radius, get_center returns the midpoint of the box
\* calculate_bounds() gives at the time of the call and the radius is the
\* distance from that midpoint to the upper corner; an insert marks the cache
\* stale, a read recomputes only when the cache is stale and leaves it valid,
\* so no value cached before an insert is returned after it.
C16_CenterAndRadiusCurrent ==
    [][/\ got'.n # got.n =>
             /\ grid'.bounds_cached
             /\ grid'.cells = grid.cells
             /\ calculate_bounds(grid') = calculate_bounds(grid)
             /\ grid.bounds_cached => grid' = grid
             /\ ~grid.bounds_cached => got'.recomputed = got.recomputed + 1
             /\ got'.op = "get_center" =>
                    got'.center = Midpoint(calculate_bounds(grid))
             /\ got'.op = "get_bounding_sphere_radius" =>
                    got'.radius = FSqrt(DistanceSquared(Midpoint(calculate_bounds(grid)),
                                                        calculate_bounds(grid)[2]))
       /\ got'.n = got.n => ~grid'.bounds_cached
      ]_vars

\* a read that recomputed, an insert, a second read that recomputed and a
\* third served from the cache
C16_Witness ==
    /\ got.n = 3
    /\ got.recomputed = 2
    /\ got.op = "get_bounding_sphere_radius"
    /\ Cardinality(DOMAIN grid.cells) = 2
    /\ grid.bounds_cached
    /\ got.radius = grid.radius
    /\ FGt(got.radius, One)

\* ---------------------------------------------------------------------------
\* the normal of a grid hit

DdaCell(d) == <<d.cx, d.cy, d.cz>>

\* the direction the traversal moves in along axis a
StepDirection(a) == IF call.rd[a][1] > 0 THEN 1 ELSE -1

AxisVector(a, s) ==
    <<IF a = 1 THEN FromInt(s) ELSE Zero,
      IF a = 2 THEN FromInt(s) ELSE Zero,
      IF a = 3 THEN FromInt(s) ELSE Zero>>

\* C20: the normal of every hit is the axis-aligned unit vector opposite to
\* the stepping direction on the axis advanced last, and (0,1,0) when the hit
\* cell is the starting cell and no step was taken.  Each advance moves one
\* cell along exactly one axis, in the stepping direction, and records that
\* axis; the hit takes its normal from the axis recorded.
C20_NormalOpposesLastStep ==
    [][/\ (pc = "loop" /\ pc' = "loop") =>
             \E a \in 1..3 :
                 /\ dda'.hit_face = a - 1
                 /\ DdaCell(dda')[a] = DdaCell(dda)[a] + StepDirection(a)
                 /\ \A b \in (1..3) \ {a} : DdaCell(dda')[b] = DdaCell(dda)[b]
       /\ (pc = "loop" /\ pc' = "done" /\ exit' = "hit") =>
             /\ dda' = dda
             /\ (dda.i = 0) <=> (dda.hit_face = 3)
             /\ out'.normal = IF dda.i = 0
                              THEN <<Zero, One, Zero>>
                              ELSE AxisVector(dda.hit_face + 1,
                                              -StepDirection(dda.hit_face + 1))
      ]_vars

\* a hit reached after advances along more than one axis, on a face whose
\* normal is not (0,1,0)
C20_Witness ==
    /\ pc = "done" /\ exit = "hit"
    /\ dda.i >= 2
    /\ call.rd[1] # Zero /\ call.rd[2] # Zero
    /\ out.normal = <<One, Zero, Zero>>

\* a hit in the starting cell
C20_WitnessStartCell ==
    /\ pc = "done" /\ exit = "hit"
    /\ dda.i = 0
    /\ out.normal = <<Zero, One, Zero>>
    /\ call.rd[2] = Zero

\* ---------------------------------------------------------------------------
\* main.rs: SimpleCamera

\* Vector3::cross
VCross(a, b) ==
    <<FSub(FMul(a[2], b[3]), FMul(a[3], b[2])),
      FSub(FMul(a[3], b[1]), FMul(a[1], b[3])),
      FSub(FMul(a[1], b[2]), FMul(a[2], b[1]))>>

\* f32::tan of an angle given in degrees, for the angles used here; the
\* irrational values are replaced by a convergent of their continued fraction
tan_of_degrees(deg) ==
    CASE deg = FromInt(15)  -> F(4, 15)
      [] deg = F(45, 2)     -> F(12, 29)
      [] deg = FromInt(30)  -> F(15, 26)
      [] deg = FromInt(45)  -> One
      [] deg = FromInt(60)  -> F(26, 15)
      [] deg = FromInt(120) -> F(-26, 15)

\* main.rs 48-63: SimpleCamera::new and update_vectors
SimpleCamera_new(eye, target, up, vfov_deg) ==
    [eye |-> eye, target |-> target, up |-> up, vfov_deg |-> vfov_deg,
     forward |-> normalized(VSub(target, eye)),
     right |-> normalized(VCross(normalized(VSub(target, eye)), up)),
     up_vec |-> VCross(normalized(VCross(normalized(VSub(target, eye)), up)),
                       normalized(VSub(target, eye)))]

\* main.rs 72-87, with the camera: the Ray returned
SimpleCamera_get_ray(cam, x, y, width, height) ==
    [origin |-> cam.eye,
     direction |->
        normalized(
            VAdd(VAdd(VScale(cam.right,
                             FMul(FMul(get_ray(x, y, width, height).ndc_x,
                                       get_ray(x, y, width, height).aspect),
                                  tan_of_degrees(cam.vfov_deg))),
                      VScale(cam.up_vec,
                             FMul(get_ray(x, y, width, height).ndc_y,
                                  tan_of_degrees(cam.vfov_deg)))),
                 cam.forward))]

\* eye, target and up of the cameras offered; main.rs 398-407 looks at the
\* centre of the structure with up = (0,1,0)
CameraPoses ==
    { [eye |-> <<Zero, Zero, FromInt(5)>>, target |-> <<Zero, Zero, Zero>>,
       up |-> <<Zero, One, Zero>>],
      [eye |-> <<FromInt(3), One, FromInt(4)>>, target |-> <<Zero, One, Zero>>,
       up |-> <<Zero, One, Zero>>],
      [eye |-> <<Zero, FromInt(5), Zero>>, target |-> <<Zero, Zero, Zero>>,
       up |-> <<Zero, Zero, FromInt(-1)>>] }

\* vertical fields of view in degrees; main.rs 406 uses 45.0
Vfovs == {FromInt(30), FromInt(45), FromInt(60), FromInt(120)}

InitCamera == Init

\* main.rs 301: the ray of one pixel of a width x height frame
GetRay(pose, vfov_deg, x, y, width, height) ==
    /\ ray' = [pc |-> "returned",
               cam |-> SimpleCamera_new(pose.eye, pose.target, pose.up, vfov_deg),
               x |-> x, y |-> y, width |-> width, height |-> height,
               value |-> SimpleCamera_get_ray(
                             SimpleCamera_new(pose.eye, pose.target, pose.up, vfov_deg),
                             x, y, width, height)]
    /\ UNCHANGED <<gridVars, prim, cast, frame, tex, app, got, shaded, sample, loaders>>

NextCamera ==
    \E pose \in CameraPoses, vfov_deg \in Vfovs,
       width \in 1..MaxWidth, height \in 1..MaxHeight :
        \E x \in 0..(width - 1), y \in 0..(height - 1) :
            GetRay(pose, vfov_deg, x, y, width, height)

SpecCamera == InitCamera /\ [][NextCamera]_vars

\* the device coordinates of the centre of pixel (x, y)
PixelCentreNdc(x, y, width, height) ==
    <<FSub(FDiv(FromInt(2 * x + 1), FromInt(width)), One),
      FSub(One, FDiv(FromInt(2 * y + 1), FromInt(height)))>>

\* the direction of the ray through the pixel centre when the device
\* coordinates are scaled by s
PinholeDirection(cam, ndc, aspect, s) ==
    normalized(VAdd(VAdd(VScale(cam.right, FMul(FMul(ndc[1], aspect), s)),
                         VScale(cam.up_vec, FMul(ndc[2], s))),
                    cam.forward))

\* C18: get_ray returns a ray from the eye whose direction is the
\* normalisation of right*(ndc_x*aspect*s) + up*(ndc_y*s) + forward, with
\* ndc_x, ndc_y the pixel-centre device coordinates in [-1, 1] and
\* s = tan(fov/2), the tangent of half the vertical field of view.
C18_HalfAngleScale ==
    ray.pc = "returned" =>
        /\ ray.value.origin = ray.cam.eye
        /\ \A i \in 1..2 :
              /\ FLe(FromInt(-1), PixelCentreNdc(ray.x, ray.y, ray.width, ray.height)[i])
              /\ FLe(PixelCentreNdc(ray.x, ray.y, ray.width, ray.height)[i], One)
        /\ ray.value.direction =
              PinholeDirection(ray.cam,
                               PixelCentreNdc(ray.x, ray.y, ray.width, ray.height),
                               FDiv(FromInt(ray.width), FromInt(ray.height)),
                               tan_of_degrees(FDiv(ray.cam.vfov_deg, FromInt(2))))

\* ---------------------------------------------------------------------------
\* main.rs: create_diorama_grid

\* main.rs 329: for layer_num in 1..=9
LAYERS == 9

\* main.rs 348-349: for x in 0..16, for z in 0..16
TEST_LAYER_SIZE == 16

\* main.rs 310-327: the material of a layer character, "none" for no cell
mat_of(ch) ==
    CASE ch = "M" -> "Dirt"
      [] ch = "T" -> "Grass"
      [] ch = "P" -> "Netherrack"
      [] ch = "R" -> "Stone"
      [] ch = "L" -> "Magma"
      [] ch = "O" -> "Gold"
      [] ch = "B" -> "Obsidian"
      [] ch = "S" -> "StoneStairs"
      [] ch = "Z" -> "StoneSlab"
      [] ch = "J" -> "StonePillar"
      [] ch = "C" -> "WoodChest"
      [] ch = "W" -> "GlowingObsidian"
      [] OTHER -> "none"

\* main.rs 350-356
test_material(r) ==
    CASE r = 0 -> "Grass"
      [] r = 1 -> "Stone"
      [] r = 2 -> "Gold"
      [] r = 3 -> "GlowingObsidian"
      [] OTHER -> "Dirt"

\* what read_to_string returns for a layer file: an error, or the lines of
\* the file, each a sequence of characters
LayerFiles ==
    { [ok |-> FALSE, lines |-> <<>>],
      [ok |-> TRUE, lines |-> << <<"M", "T">>, <<".", "O", "?">>, <<>>, <<"V", "W">> >>] }

\* mutant: the test layer replaces every missing layer
is_test_layer_any(layer_num) == TRUE

\* main.rs 347: if layer_num == 1
is_test_layer(layer_num) == layer_num = 1

\* main.rs 339-341, 350-357: Material::new_with_type loads the texture of
\* the material through the cache, then the cell is inserted
place(s, x, y, z, m, img) ==
    [grid |-> insert(s.grid, x, y, z, m),
     tex |-> Texture_new_with_type(s.tex, m, img).tex]

\* main.rs 338-342: the characters of one line from position x on
RECURSIVE place_line(_, _, _, _, _, _)
place_line(s, line, x, y, z, img) ==
    IF x > Len(line) THEN s
    ELSE place_line(IF mat_of(line[x]) = "none" THEN s
                    ELSE place(s, x - 1, y, z - 1, mat_of(line[x]), img),
                    line, x + 1, y, z, img)

\* main.rs 337-343: the lines of a file from line z on
RECURSIVE place_lines(_, _, _, _, _)
place_lines(s, lines, z, y, img) ==
    IF z > Len(lines) THEN s
    ELSE place_lines(place_line(s, lines[z], 1, y, z, img), lines, z + 1, y, img)

\* main.rs 348-359: the passes lo..hi of the test layer loops, numbered with
\* x outer and z inner; the range is halved so that the evaluation stays
\* shallow
RECURSIVE place_test_layer(_, _, _, _)
place_test_layer(s, lo, hi, img) ==
    IF lo = hi
    THEN place(s, lo \div TEST_LAYER_SIZE, 0, lo % TEST_LAYER_SIZE,
               test_material(((lo \div TEST_LAYER_SIZE) + (lo % TEST_LAYER_SIZE)) % 5),
               img)
    ELSE CHOOSE r \in {place_test_layer(half, (lo + hi) \div 2 + 1, hi, img) :
                           half \in {place_test_layer(s, lo, (lo + hi) \div 2, img)}} : TRUE

\* main.rs 330-362: one pass of the layer loop
load_layer(s, layer_num, file, img) ==
    IF file.ok THEN place_lines(s, file.lines, 1, layer_num - 1, img)
    ELSE IF is_test_layer(layer_num)
    THEN place_test_layer(s, 0, TEST_LAYER_SIZE * TEST_LAYER_SIZE - 1, img)
    ELSE s

InitScene == Init

\* main.rs 307-308
CreateDioramaGrid ==
    /\ app = NoApp
    /\ app' = [pc |-> "build", layer_num |-> 1, files |-> <<>>]
    /\ grid' = VoxelGrid_new
    /\ UNCHANGED <<pc, call, dda, lookups, exit, out, prim, cast, frame, tex, got, ray, shaded, sample, loaders>>

\* main.rs 329-363: the pass for layer app.layer_num; files records what
\* read_to_string returned for each layer so far
LoadLayer(file, img) ==
    /\ app.pc = "build"
    /\ app.layer_num <= LAYERS
    /\ \E s \in {load_layer([grid |-> grid, tex |-> tex], app.layer_num, file, img)} :
           /\ grid' = s.grid
           /\ tex' = s.tex
    /\ app' = [app EXCEPT !.layer_num = @ + 1, !.files = Append(@, file)]
    /\ UNCHANGED <<pc, call, dda, lookups, exit, out, prim, cast, frame, got, ray, shaded, sample, loaders>>

\* main.rs 365-366: the loop is over and the grid is returned
SceneBuilt ==
    /\ app.pc = "build"
    /\ app.layer_num > LAYERS
    /\ app' = [app EXCEPT !.pc = "built"]
    /\ UNCHANGED <<gridVars, prim, cast, frame, tex, got, ray, shaded, sample, loaders>>

NextScene ==
    \/ CreateDioramaGrid
    \/ \E file \in LayerFiles, img \in Images : LoadLayer(file, img)
    \/ SceneBuilt

SpecScene == InitScene /\ [][NextScene]_vars

\* the keys of the cells at height y
KeysAtHeight(y) == {k \in DOMAIN grid.cells : k[2] = y}

\* the positions of a layer file that name a material
FilePositions(file) ==
    {p \in {<<x, z>> : x \in 1..3, z \in 1..Len(file.lines)} :
        /\ p[1] <= Len(file.lines[p[2]])
        /\ mat_of(file.lines[p[2]][p[1]]) # "none"}

\* C17: scene construction never aborts on a missing or unreadable layer
\* file.  Each of the layers 1..9 is processed whatever happened to the
\* layers before it; a missing layer 1 is replaced by the 16x16 test layer at
\* y = 0, one cell for every x, z in 0..15 with the material chosen by
\* (x + z) mod 5; a missing layer other than 1 inserts no cell; a layer that
\* was read inserts the cells its characters name at y = layer - 1.
C17_MissingLayersNotFatal ==
    app.pc \in {"build", "built"} =>
        /\ app.layer_num = Len(app.files) + 1
        /\ app.layer_num <= LAYERS + 1
        /\ app.pc = "built" => Len(app.files) = LAYERS
        /\ \A k \in DOMAIN grid.cells : k[2] \in 0..(Len(app.files) - 1)
        /\ \A n \in 1..Len(app.files) :
              IF app.files[n].ok
              THEN /\ KeysAtHeight(n - 1) =
                         {<<p[1] - 1, n - 1, p[2] - 1>> : p \in FilePositions(app.files[n])}
                   /\ \A p \in FilePositions(app.files[n]) :
                         grid.cells[<<p[1] - 1, n - 1, p[2] - 1>>] =
                             mat_of(app.files[n].lines[p[2]][p[1]])
              ELSE IF n = 1
              THEN /\ KeysAtHeight(0) = {<<x, 0, z>> : x \in 0..15, z \in 0..15}
                   /\ \A x \in 0..15, z \in 0..15 :
                         grid.cells[<<x, 0, z>>] = test_material((x + z) % 5)
              ELSE KeysAtHeight(n - 1) = {}

\* the grid returned when layers 1, 2 and 9 are missing and layer 3 is read
C17_Witness ==
    /\ app.pc = "built"
    /\ ~app.files[1].ok /\ ~app.files[2].ok /\ app.files[3].ok /\ ~app.files[9].ok
    /\ Cardinality(DOMAIN grid.cells) >= 256 + 4
    /\ grid.cells[<<15, 0, 15>>] = "Grass"
    /\ grid.cells[<<1, 2, 1>>] = "Gold"

\* ---------------------------------------------------------------------------
\* main.rs: the main loop

MaxFrames == 2

NoImage == [pixels |-> <<>>, skybox_enabled |-> TRUE]

\* main.rs 383-423: the scene is built, the sky is on, no frame is shown yet
InitMain ==
    /\ grid \in Scenes
    /\ pc = "idle"
    /\ call = NoCall
    /\ dda = NoDda
    /\ lookups = 0
    /\ exit = "none"
    /\ out = Intersect_empty
    /\ prim = NoPrim
    /\ cast = NoCast
    /\ frame = NoFrame
    /\ tex \in {textures_loaded(NoTex, {grid.cells[k] : k \in DOMAIN grid.cells}, img) :
                   img \in Images}
    /\ app = [pc |-> "input", skybox_enabled |-> TRUE, frame_count |-> 0,
              render_state |-> SharedRenderState(VoxelGrid_new, TRUE),
              image |-> NoImage]
    /\ got = NoGot
    /\ ray = NoRay
    /\ shaded = NoShaded
    /\ sample = NoSample
    /\ loaders = NoLoaders

\* mutant: the render state keeps the sky flag of the frame before
render_state_of_previous(a, g) == SharedRenderState(g, a.render_state.skybox_enabled)

\* main.rs 433-446
render_state_of(a, g) == SharedRenderState(g, a.skybox_enabled)

\* main.rs 425-431: the loop goes on, and KEY_K toggles the sky
MainInput(key_k) ==
    /\ app.pc = "input"
    /\ app.frame_count < MaxFrames
    /\ app' = [app EXCEPT !.skybox_enabled = IF key_k THEN ~@ ELSE @,
                          !.pc = "snapshot"]
    /\ UNCHANGED <<gridVars, prim, cast, frame, tex, got, ray, shaded, sample, loaders>>

\* main.rs 425: window_should_close() ends the loop
MainClose ==
    /\ app.pc = "input"
    /\ app' = [app EXCEPT !.pc = "closed"]
    /\ UNCHANGED <<gridVars, prim, cast, frame, tex, got, ray, shaded, sample, loaders>>

\* main.rs 433-446: the render state of the frame is built
MainSnapshot ==
    /\ app.pc = "snapshot"
    /\ app' = [app EXCEPT !.render_state = render_state_of(app, grid), !.pc = "call"]
    /\ UNCHANGED <<gridVars, prim, cast, frame, tex, got, ray, shaded, sample, loaders>>

\* main.rs 449: the main thread calls render_parallel_optimized and waits;
\* render_width x render_height is 1200 x 800, here one row of MaxWidth pixels
MainRender ==
    /\ app.pc = "call"
    /\ render_parallel_optimized_call(MaxWidth, 1, app.render_state)
    /\ app' = [app EXCEPT !.pc = "render"]
    /\ UNCHANGED <<gridVars, prim, cast, tex, got, ray, shaded, sample, loaders>>

\* main.rs 449-477: the call returns the buffer, which becomes the image shown
MainPresent ==
    /\ app.pc = "render"
    /\ frame.pc = "done"
    /\ app' = [app EXCEPT !.pc = "input",
                          !.frame_count = @ + 1,
                          !.image = [pixels |-> frame.pixels,
                                     skybox_enabled |-> frame.skybox_enabled]]
    /\ frame' = NoFrame
    /\ UNCHANGED <<gridVars, prim, cast, tex, got, ray, shaded, sample, loaders>>

NextMain ==
    \/ \E key_k \in BOOLEAN : MainInput(key_k)
    \/ MainClose
    \/ MainSnapshot
    \/ MainRender
    \/ \E w \in Workers, i \in 1..MaxWidth : TaskStart(w, i)
    \/ \E w \in Workers : TaskFinish(w)
    \/ RenderCollect
    \/ MainPresent

SpecMain == InitMain /\ [][NextMain]_vars

\* the colours of the frame in progress that have been computed
FramePixels ==
    IF frame.pc = "map" THEN {frame.slots[i] : i \in 1..Len(frame.slots)} \ {NoColor}
    ELSE IF frame.pc = "done" THEN {frame.pixels[i] : i \in 1..Len(frame.pixels)}
    ELSE {}

\* C14: frames are strictly sequential.  Pixel tasks exist only while the
\* main thread waits in render_parallel_optimized, so every pixel of a frame
\* is computed and collected before the render state of the next frame is
\* built or any of its pixels starts; all pixels of a frame are traced
\* against the one render state built for it (the grid contents and the sky
\* flag of that moment); the sky flag changes only between frames, and a
\* toggle shows from the next render state on.
C14_FramesSequential ==
    [][/\ frame # NoFrame => app.pc = "render"
       /\ frame.pc \in {"map", "done"} =>
             /\ frame.grid = app.render_state.grid
             /\ frame.skybox_enabled = app.render_state.skybox_enabled
             /\ \A c \in FramePixels : c.skybox_enabled = app.render_state.skybox_enabled
       /\ app.pc \in {"call", "render"} =>
             /\ app.render_state.skybox_enabled = app.skybox_enabled
             /\ app.render_state.grid = grid
       /\ app'.frame_count # app.frame_count =>
             /\ frame.pc = "done"
             /\ app'.frame_count = app.frame_count + 1
             /\ Len(app'.image.pixels) = MaxWidth
             /\ \A i \in 1..Len(app'.image.pixels) :
                    /\ app'.image.pixels[i] # NoColor
                    /\ app'.image.pixels[i].skybox_enabled = app.render_state.skybox_enabled
       /\ app'.skybox_enabled # app.skybox_enabled => (app.pc = "input" /\ frame = NoFrame)
       /\ app'.render_state # app.render_state => (app.pc = "snapshot" /\ frame = NoFrame)
       /\ grid' = grid
      ]_vars

\* the second frame in progress after a toggle: the frame shown was traced
\* with the sky on, the pixels computed so far with the sky off
C14_Witness ==
    /\ app.pc = "render"
    /\ app.frame_count = 1
    /\ frame.pc = "map"
    /\ app.image.skybox_enabled
    /\ ~app.skybox_enabled
    /\ Cardinality(FramePixels) >= 2
    /\ \A c \in FramePixels : ~c.skybox_enabled

\* ------------------------------------------------------------------------
\* The parameter of a hit (voxel.rs 182-201)
\* ------------------------------------------------------------------------
\* the pending crossing parameter and the increment of axis a
TMaxAxis(d, a) == <<d.t_max_x, d.t_max_y, d.t_max_z>>[a]

TDeltaAxis(d, a) == <<d.t_delta_x, d.t_delta_y, d.t_delta_z>>[a]

\* tMaxAxis - tDeltaAxis + tEntry for the axis last advanced
CrossingParameter(d) ==
    FAdd(FSub(TMaxAxis(d, d.hit_face + 1), TDeltaAxis(d, d.hit_face + 1)), d.t_entry)

\* the plane of the face through which the last advance entered the cell
EnteredFace(d) ==
    IF StepDirection(d.hit_face + 1) > 0 THEN DdaCell(d)[d.hit_face + 1]
    ELSE DdaCell(d)[d.hit_face + 1] + 1

\* the loop pass the call ended in stood on an occupied cell
EndedOnOccupiedCell ==
    /\ pc = "done" /\ exit \in {"hit", "too_far"}
    /\ dda.i < call.max_steps /\ ~OutsideLimits(dda) /\ Occupied(grid, dda)

\* C21: when the traversal reaches an occupied cell after an advance, the
\* reported t is tMaxAxis - tDeltaAxis + tEntry for the axis last advanced,
\* which is the parameter at which the ray crosses the face it entered the
\* cell through; if that value exceeds tMax the call returns no hit; every
\* returned hit has t <= tMax and point = origin + direction * t.
C21_HitParameter ==
    /\ (EndedOnOccupiedCell /\ dda.hit_face \in 0..2) =>
          /\ PointAt(call.ro, call.rd, CrossingParameter(dda))[dda.hit_face + 1]
                = FromInt(EnteredFace(dda))
          /\ FGt(CrossingParameter(dda), call.t_max) => ~out.is_intersecting
          /\ ~FGt(CrossingParameter(dda), call.t_max) =>
                (out.is_intersecting /\ out.distance = CrossingParameter(dda))
    /\ (pc = "done" /\ out.is_intersecting) =>
          /\ EndedOnOccupiedCell
          /\ FLe(out.distance, call.t_max)
          /\ out.point = PointAt(call.ro, call.rd, out.distance)

\* a hit after an advance on a ray that entered the padded box at t > 0
C21_Witness ==
    /\ pc = "done" /\ exit = "hit" /\ dda.hit_face \in 0..2
    /\ FGt(dda.t_entry, Zero) /\ dda.i >= 2
    /\ out.distance = CrossingParameter(dda)
    /\ FGt(out.distance, FAdd(dda.t_entry, One))

\* an occupied cell reached after an advance, beyond tMax
C21_WitnessTooFar ==
    /\ pc = "done" /\ exit = "too_far" /\ dda.hit_face \in 0..2
    /\ FGt(CrossingParameter(dda), call.t_max)

\* ------------------------------------------------------------------------
\* The order of the advances (voxel.rs 215-227)
\* ------------------------------------------------------------------------
\* the axes whose pending crossing parameter is the smallest
SmallestPending(d) ==
    {a \in 1..3 : \A b \in 1..3 : FLe(TMaxAxis(d, a), TMaxAxis(d, b))}

\* X before Y before Z among the axes with the smallest parameter
AxisToAdvance(d) ==
    CHOOSE a \in SmallestPending(d) : \A b \in SmallestPending(d) : a <= b

\* C22: each traversal step moves the cell by +1 or -1 along exactly one
\* axis, the axis whose pending crossing parameter is the smallest, X before
\* Y before Z when parameters are equal; the cell after the step shares a
\* face with the cell before it and is determined by the cell and the
\* pending parameters.
C22_AdvanceOrder ==
    [][(pc = "loop" /\ dda'.i = dda.i + 1) =>
          /\ SmallestPending(dda) # {}
          /\ \A a \in 1..3 :
                DdaCell(dda')[a] =
                    IF a = AxisToAdvance(dda)
                    THEN DdaCell(dda)[a] + StepDirection(a)
                    ELSE DdaCell(dda)[a]
          /\ \A a \in 1..3 :
                TMaxAxis(dda', a) =
                    IF a = AxisToAdvance(dda)
                    THEN FAdd(TMaxAxis(dda, a), TDeltaAxis(dda, a))
                    ELSE TMaxAxis(dda, a)
      ]_vars

\* the parameter on axis a before the last advance, which was on that axis
PendingBefore(d, a) == FSub(TMaxAxis(d, a), TDeltaAxis(d, a))

\* X was advanced while Y had the same pending parameter
C22_Witness ==
    /\ pc = "loop" /\ dda.i >= 1 /\ dda.hit_face = 0
    /\ IsFinite(dda.t_max_y)
    /\ PendingBefore(dda, 1) = dda.t_max_y
    /\ FLt(dda.t_max_y, dda.t_max_z)

\* Y was advanced while Z had the same pending parameter and X a larger one
C22_WitnessYZ ==
    /\ pc = "loop" /\ dda.i >= 1 /\ dda.hit_face = 1
    /\ IsFinite(dda.t_max_z)
    /\ PendingBefore(dda, 2) = dda.t_max_z
    /\ FLt(dda.t_max_z, dda.t_max_x)

\* ------------------------------------------------------------------------
\* Degenerate direction components (voxel.rs 109-112, 147-169)
\* ------------------------------------------------------------------------
\* the direction component of the call on axis a is below the threshold
Degenerate(a) == FLt(FAbs(call.rd[a]), EPSILON)

\* the origin of the call lies outside the padded span of axis a
OriginOutsideSpan(a) ==
    \/ FLt(call.ro[a], calculate_bounds(grid)[1][a])
    \/ FGt(call.ro[a], calculate_bounds(grid)[2][a])

\* the parameters at which the ray enters and leaves the padded span of a
\* non-degenerate axis a
SpanEntry(a) ==
    FMin(FDiv(FSub(calculate_bounds(grid)[1][a], call.ro[a]), call.rd[a]),
         FDiv(FSub(calculate_bounds(grid)[2][a], call.ro[a]), call.rd[a]))

SpanExit(a) ==
    FMax(FDiv(FSub(calculate_bounds(grid)[1][a], call.ro[a]), call.rd[a]),
         FDiv(FSub(calculate_bounds(grid)[2][a], call.ro[a]), call.rd[a]))

\* [0, tMax] and the spans of the non-degenerate axes have no parameter in
\* common
NonDegenerateSpansMiss ==
    \E a \in {0} \cup {k \in 1..3 : ~Degenerate(k)},
       b \in {0} \cup {k \in 1..3 : ~Degenerate(k)} :
        FLt(IF b = 0 THEN call.t_max ELSE SpanExit(b),
            IF a = 0 THEN Zero ELSE SpanEntry(a))

\* the cell coordinates the loop was entered with
StartCell ==
    [a \in 1..3 |->
        FloorI32(PointAt(call.ro, call.rd, dda.t_entry)[a])]

\* C23: for an axis whose direction component is below 1e-6 in magnitude the
\* bounding-box test is a containment test of the origin coordinate: the
\* call fails the box test exactly when the origin lies outside the padded
\* span of a degenerate axis or the spans of the other axes miss [0, tMax],
\* so nothing is divided by the degenerate component; the step increment and
\* the pending crossing parameter of such an axis are infinite, and when some
\* other component is not degenerate the cell coordinate on the degenerate
\* axis stays the starting one.
C23_DegenerateAxes ==
    (pc \in {"loop", "done"} /\ ~cells_is_empty(grid)) =>
        /\ (exit = "miss_box") <=>
              \/ \E a \in 1..3 : Degenerate(a) /\ OriginOutsideSpan(a)
              \/ NonDegenerateSpansMiss
        /\ exit # "miss_box" =>
              \A a \in 1..3 : Degenerate(a) =>
                  /\ TDeltaAxis(dda, a) = INFINITY
                  /\ TMaxAxis(dda, a) = INFINITY
                  /\ (\E b \in 1..3 : ~Degenerate(b)) =>
                        DdaCell(dda)[a] = StartCell[a]

\* a hit after an advance on a ray whose x component is 0.0000005
C23_Witness ==
    /\ pc = "done" /\ exit = "hit" /\ dda.i >= 1
    /\ call.rd[1] = F(1, 2000000) /\ Degenerate(1) /\ Degenerate(3)
    /\ ~Degenerate(2)

\* a ray parallel to an axis is turned away because its origin is beside the box
C23_WitnessOutside ==
    /\ pc = "done" /\ exit = "miss_box" /\ ~NonDegenerateSpansMiss
    /\ \E a \in 1..3 : Degenerate(a) /\ OriginOutsideSpan(a)

\* ------------------------------------------------------------------------
\* The shadow test of shade_pixel_pbr (main.rs 228-238)
\* ------------------------------------------------------------------------
\* the invocation of shade_pixel_pbr in progress is at the given stage
ShadeStage(stage) == cast.pc = "run" /\ CastTop.stage = stage

\* the cosine between the normal of the hit being shaded and the light
HitNdotl ==
    FMax(VDot(CastTop.hit.normal, VNeg(cast.sun_dir)), Zero)

\* the arguments of the one shadow traversal
ShadowCall ==
    [ro |-> VAdd(CastTop.hit.point, VScale(CastTop.hit.normal, F(1, 10000))),
     rd |-> VNeg(cast.sun_dir), t_max |-> FromInt(20), max_steps |-> 50]

\* C24: shade_pixel_pbr makes at most one secondary grid traversal per call,
\* and only when ndotl > 0.05: from point + normal * 0.0001 along the negated
\* light direction with tMax = 20 and maxSteps = 50.  The shadow factor is
\* 0.3 when that traversal hits, 1.0 when it misses, and 1.0 with no
\* traversal when ndotl <= 0.05.
C24_ShadowRay ==
    [][/\ cast.pc \in {"run", "done"} => cast.shadow_rays <= cast.shades
       /\ (ShadeStage("shade") /\ cast' # cast) =>
             /\ cast'.shades = cast.shades + 1
             /\ IF FGt(HitNdotl, F(5, 100))
                THEN /\ cast'.shadow_rays = cast.shadow_rays + 1
                     /\ Len(cast'.stack) = Len(cast.stack)
                     /\ cast'.stack[Len(cast.stack)].stage = "shadow"
                     /\ pc = "idle" /\ pc' \in {"loop", "done"}
                     /\ call' = ShadowCall
                ELSE /\ cast'.shadow_rays = cast.shadow_rays
                     /\ UNCHANGED <<pc, call, dda, lookups, exit, out>>
                     /\ (IF Len(cast'.stack) > Len(cast.stack)
                         THEN cast'.stack[Len(cast.stack)].base_color
                         ELSE cast'.ret.of).shadow_factor = One
       /\ (ShadeStage("shadow") /\ cast' = cast) => call' = call
       /\ (ShadeStage("shadow") /\ cast' # cast) =>
             /\ pc = "done"
             /\ cast'.shades = cast.shades
             /\ cast'.shadow_rays = cast.shadow_rays
             /\ (IF Len(cast'.stack) > Len(cast.stack)
                 THEN cast'.stack[Len(cast.stack)].base_color
                 ELSE cast'.ret.of).shadow_factor
                   = IF out.is_intersecting THEN F(3, 10) ELSE One
      ]_vars

\* a call that shaded one hit in shadow (factor 0.3) and then a hit on a face
\* turned away from the light (ndotl = 0), without a second shadow ray
C24_Witness ==
    /\ cast.pc = "run" /\ Len(cast.stack) >= 2
    /\ cast.shades = 2 /\ cast.shadow_rays = 1
    /\ cast.stack[1].stage = "await"
    /\ cast.stack[1].base_color.shadow_factor = F(3, 10)
    /\ cast.stack[2].stage = "await"
    /\ cast.stack[2].base_color.shadow_factor = One
    /\ cast.stack[2].base_color.shadow_rays = 0

\* ------------------------------------------------------------------------
\* The colour shade_pixel_pbr returns (main.rs 215-265, material.rs 235-288)
\* ------------------------------------------------------------------------
\* Material values: the fields the shader reads.  textured says whether the
\* texture field is Some.  The fields are public, so a Material can carry any
\* emission, a negative one included.
ShadeMaterials ==
    {[name |-> "Magma", diffuse |-> <<F(8, 10), F(3, 10), F(1, 10)>>,
      specular |-> FromInt(25), emission |-> F(8, 10), textured |-> TRUE],
     [name |-> "Netherrack", diffuse |-> <<F(6, 10), F(2, 10), F(2, 10)>>,
      specular |-> FromInt(4), emission |-> F(15, 100), textured |-> TRUE],
     [name |-> "GlowingObsidian", diffuse |-> <<F(5, 10), F(3, 10), F(9, 10)>>,
      specular |-> FromInt(120), emission |-> F(12, 10), textured |-> TRUE],
     [name |-> "Grass", diffuse |-> <<F(4, 10), F(7, 10), F(2, 10)>>,
      specular |-> FromInt(8), emission |-> Zero, textured |-> TRUE],
     [name |-> "new", diffuse |-> <<F(1, 2), F(1, 2), F(1, 2)>>,
      specular |-> FromInt(10), emission |-> Zero, textured |-> FALSE],
     [name |-> "lamp", diffuse |-> <<F(1, 2), F(1, 2), F(1, 2)>>,
      specular |-> FromInt(10), emission |-> One, textured |-> FALSE],
     [name |-> "negative", diffuse |-> <<F(1, 2), F(1, 2), F(1, 2)>>,
      specular |-> Zero, emission |-> F(-1, 2), textured |-> TRUE]}

\* what texture.get_nearest_color(u, v) returned
TextureColors == {<<One, One, One>>, <<F(1, 2), F(1, 4), Zero>>, <<Zero, Zero, Zero>>}

\* (u * 23.0 + v * 17.0).sin() * 0.005: the sine is not evaluated, its value
\* is an input in [-0.005, 0.005]
Noises == {Zero, F(5, 1000), F(-5, 1000)}

\* spec_dot.powf(...) of line 245 is not evaluated, its value is an input
SpecPowers == {Zero, F(1, 2)}

ShadeNormals == {<<Zero, One, Zero>>, <<One, Zero, Zero>>, <<Zero, FromInt(-1), Zero>>}

\* material.rs 235-243
get_diffuse_color_sharp(m, texture_color) ==
    IF m.textured
    THEN VAdd(VScale(texture_color, F(98, 100)), VScale(m.diffuse, F(2, 100)))
    ELSE m.diffuse

\* material.rs 266-270
get_procedural_variation(m, noise) == VScale(m.diffuse, FAdd(One, noise))

\* material.rs 272-288
get_emission_color(m, texture_color, noise) ==
    IF FGt(m.emission, Zero)
    THEN IF m.textured
         THEN VScale(VAdd(m.diffuse, VScale(texture_color, F(3, 10))), m.emission)
         ELSE VScale(get_procedural_variation(m, noise), m.emission)
    ELSE <<Zero, Zero, Zero>>

\* main.rs 250-254
emission_of(m, texture_color, noise) ==
    IF FGt(m.emission, Zero)
    THEN VScale(get_emission_color(m, texture_color, noise), m.emission)
    ELSE <<Zero, Zero, Zero>>

\* main.rs 260-264
tone_mapped(c) ==
    <<FDiv(c[1], FAdd(One, FMul(c[1], F(8, 10)))),
      FDiv(c[2], FAdd(One, FMul(c[2], F(8, 10)))),
      FDiv(c[3], FAdd(One, FMul(c[3], F(8, 10))))>>

\* main.rs 226-265 with the colours evaluated: shadow_hit is the result of
\* the traversal of line 234, spec_pow the value of the powf of line 245
shade_pixel_pbr_rgb(m, normal, sun_dir, texture_color, noise, shadow_hit, spec_pow) ==
    LET albedo == get_diffuse_color_sharp(m, texture_color)
        ndotl == FMax(VDot(normal, VNeg(sun_dir)), Zero)
        ambient == F(25, 100)
        diffuse == FMul(ndotl, F(75, 100))
        shadow_factor ==
            IF FGt(ndotl, F(5, 100))
            THEN IF shadow_hit THEN F(3, 10) ELSE One
            ELSE One
        specular ==
            IF FGt(m.specular, FromInt(5))
            THEN FMul(FMul(spec_pow, F(1, 2)), shadow_factor)
            ELSE Zero
        emission == emission_of(m, texture_color, noise)
        total_lighting == FAdd(ambient, FMul(FAdd(diffuse, specular), shadow_factor))
        lit_color == VScale(albedo, total_lighting)
    IN  [shadow_factor |-> shadow_factor, emission |-> emission,
         lit_color |-> lit_color,
         value |-> tone_mapped(VAdd(lit_color, emission))]

InitShade == Init

\* a call of shade_pixel_pbr and its return
ShadePixelPbr(m, normal, sun_dir, texture_color, noise, shadow_hit, spec_pow) ==
    /\ shaded = NoShaded
    /\ shaded' = [pc |-> "returned", mat |-> m, normal |-> normal, sun_dir |-> sun_dir,
                  texture_color |-> texture_color, noise |-> noise,
                  shadow_hit |-> shadow_hit, spec_pow |-> spec_pow,
                  result |-> shade_pixel_pbr_rgb(m, normal, sun_dir, texture_color,
                                                 noise, shadow_hit, spec_pow)]
    /\ UNCHANGED <<gridVars, prim, cast, frame, tex, app, got, ray, sample, loaders>>

\* the caller takes the colour
ShadeReturn ==
    /\ shaded # NoShaded
    /\ shaded' = NoShaded
    /\ UNCHANGED <<gridVars, prim, cast, frame, tex, app, got, ray, sample, loaders>>

NextShade ==
    \/ \E m \in ShadeMaterials, normal \in ShadeNormals, sun_dir \in SunDirs,
          texture_color \in TextureColors, noise \in Noises, shadow_hit \in BOOLEAN,
          spec_pow \in SpecPowers :
          ShadePixelPbr(m, normal, sun_dir, texture_color, noise, shadow_hit, spec_pow)
    \/ ShadeReturn

SpecShade == InitShade /\ [][NextShade]_vars

\* the emission colour sampled for the call: the texture blend or the
\* procedural variation, before any scaling by the emission strength
SampledEmissionColor ==
    IF shaded.mat.textured
    THEN VAdd(shaded.mat.diffuse, VScale(shaded.texture_color, F(3, 10)))
    ELSE VScale(shaded.mat.diffuse, FAdd(One, shaded.noise))

\* the material of the call with its emission strength doubled
DoubledEmission == [shaded.mat EXCEPT !.emission = FMul(FromInt(2), @)]

\* C25: for a material with emission strength e > 0 the emission term is the
\* sampled emission colour scaled by e once, so doubling e doubles the term;
\* the term is added to the lit colour whether or not the point is in
\* shadow; for e <= 0 the term is zero.
C25_EmissionScaledOnce ==
    shaded.pc = "returned" =>
        /\ shaded.result.value
              = tone_mapped(VAdd(shaded.result.lit_color, shaded.result.emission))
        /\ shaded.result.emission
              = shade_pixel_pbr_rgb(shaded.mat, shaded.normal, shaded.sun_dir,
                                    shaded.texture_color, shaded.noise,
                                    ~shaded.shadow_hit, shaded.spec_pow).emission
        /\ FLe(shaded.mat.emission, Zero) =>
              shaded.result.emission = <<Zero, Zero, Zero>>
        /\ FGt(shaded.mat.emission, Zero) =>
              /\ shaded.result.emission
                    = VScale(SampledEmissionColor, shaded.mat.emission)
              /\ emission_of(DoubledEmission, shaded.texture_color, shaded.noise)
                    = VScale(shaded.result.emission, FromInt(2))

\* the parts of C25 that do not depend on how often e is applied: the term
\* is added in and out of shadow, and is zero for e <= 0
C25_EmissionIgnoresShadow ==
    shaded.pc = "returned" =>
        /\ shaded.result.value
              = tone_mapped(VAdd(shaded.result.lit_color, shaded.result.emission))
        /\ shaded.result.emission
              = shade_pixel_pbr_rgb(shaded.mat, shaded.normal, shaded.sun_dir,
                                    shaded.texture_color, shaded.noise,
                                    ~shaded.shadow_hit, shaded.spec_pow).emission
        /\ FLe(shaded.mat.emission, Zero) =>
              shaded.result.emission = <<Zero, Zero, Zero>>

\* what the code computes for e > 0: the sampled colour scaled by e twice
C25_EmissionScaledTwice ==
    (shaded.pc = "returned" /\ FGt(shaded.mat.emission, Zero)) =>
        shaded.result.emission
            = VScale(SampledEmissionColor, FMul(shaded.mat.emission, shaded.mat.emission))

\* an emissive textured material shaded in shadow
C25_WitnessInShadow ==
    /\ shaded.pc = "returned" /\ shaded.mat.name = "Magma"
    /\ shaded.result.shadow_factor = F(3, 10)
    /\ shaded.texture_color = <<One, One, One>>
    /\ shaded.result.emission = <<F(704, 1000), F(384, 1000), F(256, 1000)>>

\* ------------------------------------------------------------------------
\* Texture sampling (texture.rs 196-266)
\* ------------------------------------------------------------------------
\* f32::trunc
FTrunc(a) ==
    IF ~IsFinite(a) THEN a
    ELSE IF a[1] >= 0 THEN FromInt(a[1] \div a[2])
    ELSE FromInt(-((-a[1]) \div a[2]))

\* f32::fract: self - self.trunc(), which keeps the sign of self
FFract(a) == FSub(a, FTrunc(a))

\* v as i32: towards zero, saturating, NaN to 0
TruncI32(a) ==
    IF IsNaN(a) THEN 0
    ELSE IF a[2] = 0 THEN (IF a[1] > 0 THEN I32_MAX ELSE I32_MIN)
    ELSE IF a[1] >= 0 THEN a[1] \div a[2]
    ELSE -((-a[1]) \div a[2])

\* i32::clamp
clamp_i32(x, lo, hi) == IF x < lo THEN lo ELSE IF x > hi THEN hi ELSE x

\* the TextureData sampled: solid (one pixel), a decoded 2x2 and 4x3 file and
\* the 16x16 procedural texture.  A pixel stands for its index in pixels.
SampledTextures ==
    {[width |-> 1, height |-> 1], [width |-> 2, height |-> 2],
     [width |-> 4, height |-> 3], [width |-> 16, height |-> 16]}

pixels_len(data) == data.width * data.height

\* texture coordinates offered to the sampling calls
TexCoords ==
    {F(-5, 4), FromInt(-1), F(-3, 4), F(-1, 4), Zero, F(1, 4), F(1, 2), F(3, 4),
     One, F(5, 4), F(7, 2), INFINITY, NAN}

\* the closure get_pixel of get_bilinear_color (243-255) and lines 209-220 of
\* get_nearest_color: the pixel read, or the fallback colour.  A negative
\* index wraps to a huge usize, which is not below the length.
get_pixel(data, x, y) ==
    IF y * data.width + x >= 0 /\ y * data.width + x < pixels_len(data)
    THEN [fallback |-> FALSE, x |-> x, y |-> y, index |-> y * data.width + x]
    ELSE [fallback |-> TRUE, x |-> x, y |-> y, index |-> y * data.width + x]

\* texture.rs 196-221
get_nearest_color(data, u, v) ==
    IF pixels_len(data) <= 1 THEN [solid |-> TRUE, reads |-> <<>>]
    ELSE LET u_wrapped == FAbs(FFract(u))
             v_wrapped == FAbs(FFract(v))
             x == clamp_i32(TruncI32(FMul(u_wrapped, FromInt(data.width))),
                            0, data.width - 1)
             y == clamp_i32(TruncI32(FMul(v_wrapped, FromInt(data.height))),
                            0, data.height - 1)
         IN  [solid |-> FALSE, reads |-> <<get_pixel(data, x, y)>>]

\* texture.rs 224-266: the four pixels read and the weights they are mixed with
get_bilinear_color(data, u, v) ==
    IF pixels_len(data) <= 1 THEN [solid |-> TRUE, reads |-> <<>>]
    ELSE LET u_wrapped == FAbs(FFract(u))
             v_wrapped == FAbs(FFract(v))
             tex_x == FMul(u_wrapped, FromInt(data.width - 1))
             tex_y == FMul(v_wrapped, FromInt(data.height - 1))
             x0 == FloorI32(tex_x)
             y0 == FloorI32(tex_y)
             x1 == IF x0 + 1 < data.width - 1 THEN x0 + 1 ELSE data.width - 1
             y1 == IF y0 + 1 < data.height - 1 THEN y0 + 1 ELSE data.height - 1
         IN  [solid |-> FALSE,
              reads |-> <<get_pixel(data, x0, y0), get_pixel(data, x1, y0),
                          get_pixel(data, x0, y1), get_pixel(data, x1, y1)>>,
              fx |-> FSub(tex_x, FromInt(x0)), fy |-> FSub(tex_y, FromInt(y0))]

InitSample == Init

\* a call of Texture::get_nearest_color
GetNearestColor(data, u, v) ==
    /\ sample = NoSample
    /\ sample' = [pc |-> "returned", op |-> "nearest", data |-> data, u |-> u, v |-> v,
                  result |-> get_nearest_color(data, u, v)]
    /\ UNCHANGED <<gridVars, prim, cast, frame, tex, app, got, ray, shaded, loaders>>

\* a call of Texture::get_bilinear_color
GetBilinearColor(data, u, v) ==
    /\ sample = NoSample
    /\ sample' = [pc |-> "returned", op |-> "bilinear", data |-> data, u |-> u, v |-> v,
                  result |-> get_bilinear_color(data, u, v)]
    /\ UNCHANGED <<gridVars, prim, cast, frame, tex, app, got, ray, shaded, loaders>>

\* the caller takes the colour
SampleReturn ==
    /\ sample # NoSample
    /\ sample' = NoSample
    /\ UNCHANGED <<gridVars, prim, cast, frame, tex, app, got, ray, shaded, loaders>>

NextSample ==
    \/ \E data \in SampledTextures, u \in TexCoords, v \in TexCoords :
          GetNearestColor(data, u, v)
    \/ \E data \in SampledTextures, u \in TexCoords, v \in TexCoords :
          GetBilinearColor(data, u, v)
    \/ SampleReturn

SpecSample == InitSample /\ [][NextSample]_vars

\* the coordinate wrapped into [0, 1) by its floor
FloorWrapped(c) == FSub(c, FFloor(c))

\* the pixels a call of the same operation reads at the given coordinates
ReadsAt(u, v) ==
    IF sample.op = "nearest" THEN get_nearest_color(sample.data, u, v).reads
    ELSE get_bilinear_color(sample.data, u, v).reads

\* every pixel the call read lies inside the texture
ReadsInRange ==
    \A i \in 1..Len(sample.result.reads) :
        /\ ~sample.result.reads[i].fallback
        /\ sample.result.reads[i].x \in 0..(sample.data.width - 1)
        /\ sample.result.reads[i].y \in 0..(sample.data.height - 1)
        /\ sample.result.reads[i].index \in 0..(pixels_len(sample.data) - 1)

\* C26: get_nearest_color and get_bilinear_color wrap (u, v) by the floor,
\* u - floor(u), so a negative coordinate reads the same texels as that
\* coordinate plus 1 (u = -0.25 like u = 0.75); the texel index is always
\* inside [0, width-1] x [0, height-1], so no (u, v) reads out of range.
C26_FloorWrap ==
    (sample.pc = "returned" /\ ~sample.result.solid) =>
        /\ ReadsInRange
        /\ (IsFinite(sample.u) /\ IsFinite(sample.v)) =>
              /\ sample.result.reads
                    = ReadsAt(FloorWrapped(sample.u), FloorWrapped(sample.v))
              /\ FLt(sample.u, Zero) =>
                    sample.result.reads = ReadsAt(FAdd(sample.u, One), sample.v)
              /\ FLt(sample.v, Zero) =>
                    sample.result.reads = ReadsAt(sample.u, FAdd(sample.v, One))

\* the second half of C26: no call reads outside the texture
C26_ReadsInRange ==
    (sample.pc = "returned" /\ ~sample.result.solid) => ReadsInRange

\* what the code does with a negative coordinate: it reads where the
\* coordinate with the sign removed reads
C26_MirrorWrap ==
    (sample.pc = "returned" /\ ~sample.result.solid) =>
        sample.result.reads = ReadsAt(FAbs(sample.u), FAbs(sample.v))

\* the claim's example: u = -0.25 on a texture four pixels wide reads column 1,
\* where u = 0.25 reads, while u = 0.75 reads column 3
C26_WitnessMirror ==
    /\ sample.pc = "returned" /\ sample.op = "nearest"
    /\ sample.data = [width |-> 4, height |-> 3]
    /\ sample.u = F(-1, 4) /\ sample.v = Zero
    /\ sample.result.reads[1].x = 1
    /\ get_nearest_color(sample.data, F(3, 4), Zero).reads[1].x = 3

\* ------------------------------------------------------------------------
\* The normals of the hit records (cube.rs 39-73, plane.rs 25-28,
\* voxel.rs 203-208)
\* ------------------------------------------------------------------------
AxisUnitVectors == {AxisVector(a, s) : a \in 1..3, s \in {-1, 1}}

\* the offset of the hit point of the box from its centre
LocalPoint == VSub(prim.out.point, prim.center)

\* the normal is the unit vector of an axis on which the offset from the
\* centre is largest in magnitude, with the sign of the offset
BoxNormalOnLargestOffset ==
    \E a \in 1..3 :
        /\ \A b \in 1..3 : FGe(FAbs(LocalPoint[a]), FAbs(LocalPoint[b]))
        /\ prim.out.normal = AxisVector(a, IF FGt(LocalPoint[a], Zero) THEN 1 ELSE -1)

\* the normals of the box and the grid hits
BoxAndGridNormalsUnit ==
    /\ (pc = "done" /\ out.is_intersecting) => out.normal \in AxisUnitVectors
    /\ (prim.shape = "cube" /\ prim.out.is_intersecting) =>
          /\ prim.out.normal \in AxisUnitVectors
          /\ BoxNormalOnLargestOffset

\* C27: every hit record of Cube::ray_intersect, Plane::ray_intersect and
\* VoxelGrid::intersect_ray carries a unit-length normal: the box and the
\* grid return one of the six axis unit vectors (the box the axis of the
\* largest offset from the centre, signed by the offset), and the plane
\* returns a unit vector whatever normal the Plane holds.
C27_UnitNormals ==
    /\ BoxAndGridNormalsUnit
    /\ (prim.shape = "plane" /\ prim.out.is_intersecting) =>
          VDot(prim.out.normal, prim.out.normal) = One

\* the box and grid part of C27
C27_BoxAndGridNormals == BoxAndGridNormalsUnit

\* what the plane returns: its own normal or the negation, of the same length
C27_PlaneNormalLength ==
    (prim.shape = "plane" /\ prim.out.is_intersecting) =>
        VDot(prim.out.normal, prim.out.normal) = VDot(prim.normal, prim.normal)

\* a hit on a Plane whose normal is (0, 2, 0) carries a normal of length 2
C27_WitnessLongNormal ==
    /\ prim.shape = "plane" /\ prim.out.is_intersecting
    /\ prim.normal = <<Zero, FromInt(2), Zero>>
    /\ VDot(prim.out.normal, prim.out.normal) = FromInt(4)

\* a box hit on a face with a negative offset
C27_WitnessBox ==
    /\ prim.shape = "cube" /\ prim.out.is_intersecting
    /\ prim.out.normal = <<FromInt(-1), Zero, Zero>>

\* ------------------------------------------------------------------------
\* The traversal against the geometry of the ray (voxel.rs 132-231)
\* ------------------------------------------------------------------------
\* the parameters at which the ray of the call is inside the slab
\* c[a] <= p[a] <= c[a] + 1 of cell c: <<first, last>>, first > last when
\* there are none; for a ray parallel to the slab all or none
SlabInterval(c, a) ==
    IF call.rd[a] = Zero
    THEN IF FLe(FromInt(c[a]), call.ro[a]) /\ FLe(call.ro[a], FromInt(c[a] + 1))
         THEN <<Zero, INFINITY>>
         ELSE <<One, Zero>>
    ELSE <<FMin(FDiv(FSub(FromInt(c[a]), call.ro[a]), call.rd[a]),
                FDiv(FSub(FromInt(c[a] + 1), call.ro[a]), call.rd[a])),
           FMax(FDiv(FSub(FromInt(c[a]), call.ro[a]), call.rd[a]),
                FDiv(FSub(FromInt(c[a] + 1), call.ro[a]), call.rd[a]))>>

\* the parameter at which the ray enters the closed unit cube of cell c
CellEntry(c) ==
    FMax(FMax(Zero, SlabInterval(c, 1)[1]),
         FMax(SlabInterval(c, 2)[1], SlabInterval(c, 3)[1]))

\* the parameter at which it leaves the cube
CellExit(c) ==
    FMin(SlabInterval(c, 1)[2], FMin(SlabInterval(c, 2)[2], SlabInterval(c, 3)[2]))

\* the ray (t >= 0) passes through the closed unit cube of cell c
RayPassesThrough(c) == FLe(CellEntry(c), CellExit(c))

\* the point lies in the closed unit cube of cell c
InCube(p, c) ==
    \A a \in 1..3 : FLe(FromInt(c[a]), p[a]) /\ FLe(p[a], FromInt(c[a] + 1))

\* the ray passes through the interior of the cube of cell c, not merely
\* along one of its faces or through an edge or a corner
RayCrossesInterior(c) ==
    /\ FLt(CellEntry(c), CellExit(c))
    /\ \A a \in 1..3 :
          call.rd[a] = Zero =>
             FLt(FromInt(c[a]), call.ro[a]) /\ FLt(call.ro[a], FromInt(c[a] + 1))

\* the occupied cells the ray passes through
OccupiedOnRay == {c \in DOMAIN grid.cells : RayPassesThrough(c)}

\* c is a first occupied cell along the ray: the ray passes through its cube
\* and crosses the interior of no occupied cell before entering it
FirstOccupied(c) ==
    /\ c \in OccupiedOnRay
    /\ \A c2 \in OccupiedOnRay :
          RayCrossesInterior(c2) => FLe(CellEntry(c), CellEntry(c2))

\* the cell the traversal stands on is one it looks up in this pass
Visiting == pc = "loop" /\ dda.i < call.max_steps /\ ~OutsideLimits(dda)

\* C28: every cell intersect_ray visits is a cell whose closed unit cube the
\* ray passes through; when the traversal reaches a first occupied cell along
\* the ray (no occupied cell on the ray is entered earlier) within tMax and
\* within the step budget, the call returns a hit on that cell, with the
\* material stored under the cell's key and a hit point on the cell's closed
\* cube; and no hit is returned on a cell behind another occupied cell.
C28_NearestHit ==
    /\ Visiting => RayPassesThrough(DdaCell(dda))
    /\ (EndedOnOccupiedCell /\ FirstOccupied(DdaCell(dda))
          /\ FLe(CellEntry(DdaCell(dda)), call.t_max)) =>
          /\ out.is_intersecting
          /\ out.material = grid.cells[DdaCell(dda)]
          /\ InCube(out.point, DdaCell(dda))
    /\ (pc = "done" /\ out.is_intersecting) =>
          /\ EndedOnOccupiedCell
          /\ FirstOccupied(DdaCell(dda))

\* a hit on the nearer of two occupied cells the ray passes through
C28_Witness ==
    /\ pc = "done" /\ out.is_intersecting /\ dda.i >= 1
    /\ Cardinality(OccupiedOnRay) = 2
    /\ \E c \in OccupiedOnRay : FGt(CellEntry(c), CellEntry(DdaCell(dda)))

\* a direction component that is not zero but is below the 1e-6 threshold: the
\* traversal never advances along it although the ray moves along it
DriftingComponent ==
    /\ pc \in {"loop", "done"}
    /\ \E a \in 1..3 : call.rd[a] # Zero /\ FLt(FAbs(call.rd[a]), EPSILON)

\* for rays without such a component the three parts hold together
C28_NearestHitWithoutDrift == (~DriftingComponent) => C28_NearestHit

\* whatever the direction, a hit is on an occupied cell and carries the
\* material stored under that cell's key
C28_HitCarriesCellMaterial ==
    (pc = "done" /\ out.is_intersecting) =>
       /\ DdaCell(dda) \in DOMAIN grid.cells
       /\ out.material = grid.cells[DdaCell(dda)]

\* a hit returned on a cell whose closed cube the ray never passes through
C28_WitnessOffRay ==
    /\ pc = "done" /\ out.is_intersecting
    /\ ~RayPassesThrough(DdaCell(dda))
    /\ ~InCube(out.point, DdaCell(dda))

\* ------------------------------------------------------------------------
\* load_cached_texture called from two threads
\* ------------------------------------------------------------------------
InitLoad == Init

\* the material types the threads ask for
LoadTypes == {"Grass", "Gold"}

\* texture.rs 43-46, 65: a thread enters load_cached_texture
LoadCall(t, material_type) ==
    /\ loaders.threads[t].pc = "idle"
    /\ loaders.started < MaxTextureCalls
    /\ loaders' = [loaders EXCEPT
          !.threads[t] = [pc |-> "check",
                          filename |-> get_material_info(material_type).filename,
                          fallback_color |-> get_material_info(material_type).fallback_color,
                          data |-> NoData],
          !.started = @ + 1]
    /\ UNCHANGED <<gridVars, prim, cast, frame, tex, app, got, ray, shaded, sample>>

\* texture.rs 67: TEXTURE_CACHE.lock() of the first block
LockForCheck(t) ==
    /\ loaders.threads[t].pc = "check"
    /\ loaders.lock = 0
    /\ loaders' = [loaders EXCEPT !.threads[t].pc = "checking", !.lock = t]
    /\ UNCHANGED <<gridVars, prim, cast, frame, tex, app, got, ray, shaded, sample>>

\* texture.rs 68-74: cache.get under the lock; the guard is dropped at the
\* return of a found entry and at the end of the block otherwise
CheckCache(t) ==
    /\ loaders.threads[t].pc = "checking"
    /\ loaders.lock = t
    /\ loaders' =
          IF cache_get(tex.cache, loaders.threads[t].filename) # {}
          THEN [loaders EXCEPT
                  !.threads[t].pc = "return",
                  !.threads[t].data =
                      (CHOOSE e \in cache_get(tex.cache, loaders.threads[t].filename) :
                          TRUE).data,
                  !.lock = 0]
          ELSE [loaders EXCEPT !.threads[t].pc = "open", !.lock = 0]
    /\ UNCHANGED <<gridVars, prim, cast, frame, tex, app, got, ray, shaded, sample>>

\* texture.rs 76-109: image::open and the decoding, or the procedural
\* texture, and Arc::new of the result; no lock is held
OpenImage(t, img) ==
    /\ loaders.threads[t].pc = "open"
    /\ loaders' = [loaders EXCEPT
          !.threads[t].pc = "store",
          !.threads[t].data = texture_data(tex.next, img, loaders.threads[t].fallback_color),
          !.decoded = @ \cup {[name |-> loaders.threads[t].filename, id |-> tex.next]}]
    /\ tex' = [tex EXCEPT !.next = @ + 1]
    /\ UNCHANGED <<gridVars, prim, cast, frame, app, got, ray, shaded, sample>>

\* texture.rs 112: TEXTURE_CACHE.lock() of the second block
LockForStore(t) ==
    /\ loaders.threads[t].pc = "store"
    /\ loaders.lock = 0
    /\ loaders' = [loaders EXCEPT !.threads[t].pc = "storing", !.lock = t]
    /\ UNCHANGED <<gridVars, prim, cast, frame, tex, app, got, ray, shaded, sample>>

\* texture.rs 113-114: cache.insert under the lock, then the guard is dropped
StoreInCache(t) ==
    /\ loaders.threads[t].pc = "storing"
    /\ loaders.lock = t
    /\ tex' = [tex EXCEPT !.cache = cache_insert(@, loaders.threads[t].filename,
                                                  loaders.threads[t].data)]
    /\ loaders' = [loaders EXCEPT
          !.threads[t].pc = "return",
          !.stored = @ \cup {[name |-> loaders.threads[t].filename,
                              id |-> loaders.threads[t].data.id]},
          !.lock = 0]
    /\ UNCHANGED <<gridVars, prim, cast, frame, app, got, ray, shaded, sample>>

\* texture.rs 70-72, 116-118: the Texture goes to the caller
ReturnTexture(t) ==
    /\ loaders.threads[t].pc = "return"
    /\ loaders' = [loaders EXCEPT
          !.threads[t] = IdleLoader,
          !.returned = @ \cup {[name |-> loaders.threads[t].filename,
                                id |-> loaders.threads[t].data.id]}]
    /\ UNCHANGED <<gridVars, prim, cast, frame, tex, app, got, ray, shaded, sample>>

NextLoad ==
    \/ \E t \in LoaderThreads, material_type \in LoadTypes : LoadCall(t, material_type)
    \/ \E t \in LoaderThreads : LockForCheck(t)
    \/ \E t \in LoaderThreads : CheckCache(t)
    \/ \E t \in LoaderThreads, img \in Images : OpenImage(t, img)
    \/ \E t \in LoaderThreads : LockForStore(t)
    \/ \E t \in LoaderThreads : StoreInCache(t)
    \/ \E t \in LoaderThreads : ReturnTexture(t)

SpecLoad == InitLoad /\ [][NextLoad]_vars

\* the TextureData objects of a set of records that belong to one file name
ObjectsFor(records, name) == {r.id : r \in {q \in records : q.name = name}}

\* the file names asked for
LoadNames == {get_material_info(material_type).filename : material_type \in LoadTypes}

\* the threads between a lookup that missed and the insertion that follows it
BetweenMissAndStore(name) ==
    {t \in LoaderThreads : /\ loaders.threads[t].filename = name
                           /\ loaders.threads[t].pc \in {"open", "store", "storing"}}

\* C29: under concurrent calls of load_cached_texture for one file name the
\* lookup and the later insertion are one atomic step with respect to the
\* cache lock: no second thread looks the name up between a thread's missed
\* lookup and its insertion, the image is decoded or generated by at most
\* one thread, an entry once stored for a name is never replaced by another
\* data object, and all callers receive the same shared data.
C29_AtomicLoad ==
    \A name \in LoadNames :
       /\ Cardinality(BetweenMissAndStore(name)) <= 1
       /\ Cardinality(ObjectsFor(loaders.decoded, name)) <= 1
       /\ Cardinality(ObjectsFor(loaders.stored, name)) <= 1
       /\ Cardinality(ObjectsFor(loaders.returned, name)) <= 1

\* the lock itself excludes: at most one thread is inside a locked block, and
\* it is the thread recorded as the holder
C29_LockExcludes ==
    /\ Cardinality({t \in LoaderThreads :
                       loaders.threads[t].pc \in {"checking", "storing"}}) <= 1
    /\ \A t \in LoaderThreads :
          loaders.threads[t].pc \in {"checking", "storing"} <=> loaders.lock = t

\* every Texture handed to a caller holds an object that was decoded for that
\* name and stored in the cache under it, and the cache holds for each name
\* the object stored last
C29_ReturnedWasStored ==
    /\ loaders.returned \subseteq loaders.stored
    /\ loaders.stored \subseteq loaders.decoded
    /\ \A e \in tex.cache : [name |-> e.name, id |-> e.data.id] \in loaders.stored

\* two threads have both missed the same name, both decoded it, the second
\* insertion has replaced the entry of the first, and the two callers hold
\* different objects
C29_WitnessTwoObjects ==
    \E name \in LoadNames :
       /\ Cardinality(ObjectsFor(loaders.returned, name)) = 2
       /\ Cardinality(ObjectsFor(loaders.stored, name)) = 2
       /\ loaders.started = 2

\* two calls for one name, one after the other's insertion: the second finds
\* the entry and both callers hold the same object
C29_WitnessShared ==
    \E name \in LoadNames :
       /\ loaders.started = 2
       /\ \A t \in LoaderThreads : loaders.threads[t].pc = "idle"
       /\ Cardinality(ObjectsFor(loaders.decoded, name)) = 1
       /\ Cardinality(ObjectsFor(loaders.returned, name)) = 1
       /\ Cardinality(tex.cache) = 1

====
